---- MODULE Spec2Model ----
(***************************************************************************)
(* Credit ledger and ask pipeline of the ELIN backend                      *)
(* (src/backend/app/main.py).  Every request handler is a process; one     *)
(* action is one database statement or one commit of the handler, under    *)
(* PostgreSQL READ COMMITTED: a statement sees what is committed when it   *)
(* runs, SELECT ... FOR UPDATE waits for the row lock, and the lock is     *)
(* held until the handler's commit or rollback.                            *)
(***************************************************************************)
EXTENDS Integers, Sequences, FiniteSets, TLC

\* ------------------------------------------------------------------ bounds
NumRequests == 3
MaxInitBalance == 2
MaxQuestions == 3
MaxFollowups == 2
MaxLedgerRows == 3
\* The depth at which the interpreter ends a recursion with RecursionError
\* (sys.getrecursionlimit() frames; any depth above MaxQuestions stands for it).
RecursionLimit == 5

\* ------------------------------------------------------- program constants
CREDIT_COST_PER_ASK == 1
FOLLOWUP_OPTIONS_COUNT == 3

Users == {"u1", "u2"}
ClientKeys == {"K1", "K2"}
Procs == 1..NumRequests
NoProc == 0
NoId == 0

VARIABLES
    walletRow,    \* credit_wallets: user -> a committed row exists
    balance,      \* credit_wallets.balance of the committed row (0 without a row)
    walletLock,   \* holder of the wallet row lock (or of the pending insert), NoProc when free
    ledger,       \* credit_transactions in creation order
    questions,    \* questions rows
    answers,      \* answers rows
    followups,    \* followups rows, by id
    orders,       \* orders rows, by id
    orderLock,    \* holder of each order row lock, NoProc when free
    pc,           \* position of each request handler
    req,          \* the request each handler serves
    resp,         \* what the handler returned (code "none" while running)
    effect,       \* history: the sum of the changes each handler made to its caller's balance
    hist,         \* the history request served and its response (op "none" before it)
    followupLock  \* the follow-up row locks held: pairs <<follow-up id, holder>>

vars == <<walletRow, balance, walletLock, ledger, questions, answers, followups,
          orders, orderLock, pc, req, resp, effect, hist, followupLock>>

db == <<walletRow, balance, ledger, questions, answers, followups, orders>>


NoFid == <<NoId, 0>>
\* retry is history: a refund row of the request's (user, key) was committed
\* before the request's first statement.
NoReq == [op |-> "none", user |-> "u1", key |-> <<"none", NoId>>, fid |-> NoFid,
          oid |-> NoId, size |-> 0, retry |-> FALSE]
NoResp == [code |-> "none", qid |-> NoId, rid |-> NoId, answer |-> <<"none", NoId>>,
           oid |-> NoId, wallet |-> 0, options |-> <<>>]
\* No node: what a history response carries when it has no tree.
NoNode == [qid |-> NoId, answer |-> <<"none", NoId>>, charged |-> 0, children |-> <<>>]
NoHist == [op |-> "none", user |-> "u1", qid |-> NoId, limit |-> 0, offset |-> 0,
           code |-> "none", items |-> <<>>, total |-> 0, root |-> NoNode,
           transactions |-> <<>>]

\* The rows of credit_transactions with (user, action, idempotency_key).
TxRows(u, a, k) == {i \in DOMAIN ledger :
                      ledger[i].user = u /\ ledger[i].action = a /\ ledger[i].key = k}

\* Faulty variant: the table has no unique constraint on (user, action, key).
TxUniqueOkNoConstraint(u, a, k) == TRUE

\* uq_credit_transactions_user_action_idempotency_key: may the row be inserted?
TxUniqueOk(u, a, k) == TxRows(u, a, k) = {}

Tx(u, a, k, amt, q, o, r) ==
    [user |-> u, action |-> a, key |-> k, amount |-> amt, qid |-> q, oid |-> o, rid |-> r]

\* str(uuid4()): the request id of handler p, fresh for each handler.
RequestId(p) == p
\* uuid4 primary key of the question handler p inserts.
NewQuestionId(p) == p
\* payload.question: every request carries its own text.
QuestionText(p) == <<"text", p>>

BuildMockAnswerText(text) == <<"mock", text[2]>>

\* ------------------------------------------------------------------- Init
\* u1 has a wallet row with a balance of 0..MaxInitBalance, as the fixture of
\* tests/test_ask_credit_flow.py inserts one; u2 has no wallet row.  Every
\* other table is empty and no request has arrived.
Init ==
    /\ walletRow = [u \in Users |-> u = "u1"]
    /\ \E b \in 0..MaxInitBalance : balance = [u \in Users |-> IF u = "u1" THEN b ELSE 0]
    /\ walletLock = [u \in Users |-> NoProc]
    /\ ledger = <<>>
    /\ questions = {}
    /\ answers = {}
    /\ followups = <<>>
    /\ orders = <<>>
    /\ orderLock = [o \in Procs |-> NoProc]
    /\ pc = [p \in Procs |-> "idle"]
    /\ req = [p \in Procs |-> NoReq]
    /\ resp = [p \in Procs |-> NoResp]
    /\ effect = [p \in Procs |-> 0]
    /\ hist = NoHist
    /\ followupLock = {}

\* History: what handler p's statement did to its caller's balance.
Effect(p) ==
    effect' = [effect EXCEPT ![p] = @ + balance'[req'[p].user] - balance[req'[p].user]]

\* --------------------------------------------------------- request intake
\* Handlers are interchangeable: they start in index order.
CanStart(p) == pc[p] = "idle" /\ (IF p = 1 THEN TRUE ELSE pc[p - 1] # "idle")

\* Faulty variant: the follow-up is restored in a finally clause, after a
\* success as well.
AfterExecuteAskAlwaysRestores(p, code) ==
    IF req[p].op = "ask" THEN "done"
    ELSE IF code \in {"200", "402", "409", "500"} THEN "restore"
    ELSE "done"

\* Faulty variant: a 500 of the pipeline is not caught by ask_followup.
AfterExecuteAskNoRestoreOn500(p, code) ==
    IF req[p].op = "ask" THEN "done"
    ELSE IF code = "200" THEN "link"
    ELSE IF code \in {"402", "409"} THEN "restore"
    ELSE "done"

\* Where a handler goes when _execute_ask returns or raises: ask returns the
\* response; ask_followup links the follow-up on success, restores it on an
\* HTTPException, and lets any other exception through.
AfterExecuteAsk(p, code) ==
    IF req[p].op = "ask" THEN "done"
    ELSE IF code = "200" THEN "link"
    ELSE IF code \in {"402", "409", "500"} THEN "restore"
    ELSE "done"

Return(p, r) ==
    /\ resp' = [resp EXCEPT ![p] = r]
    /\ pc' = [pc EXCEPT ![p] = AfterExecuteAsk(p, r.code)]

Failure(code) == [NoResp EXCEPT !.code = code]

\* ------------------------------------------------------------ _execute_ask
\* Faulty variant: the replay lookup leaves out the idempotency-key filter.
ExistingAskAnyKey(u, k) ==
    {q \in questions : /\ q.user = u /\ q.status = "succeeded"
                       /\ \E a \in answers : a.qid = q.id}

\* The succeeded questions of (user, key) that have an answer row.
ExistingAsk(u, k) ==
    {q \in questions : /\ q.user = u /\ q.key = k /\ q.status = "succeeded"
                       /\ \E a \in answers : a.qid = q.id}

\* ORDER BY created_at ASC, id ASC of followups: a question's follow-ups are
\* created with it, so creation order is the order of the ids.
FollowupBefore(f, g) == f[1] < g[1] \/ (f[1] = g[1] /\ f[2] < g[2])

\* A set of follow-up ids as the list a query ordered that way returns.
RECURSIVE FollowupsInOrder(_)
FollowupsInOrder(S) ==
    IF S = {} THEN <<>>
    ELSE LET f == CHOOSE x \in S : \A y \in S \ {x} : FollowupBefore(x, y)
         IN <<f>> \o FollowupsInOrder(S \ {f})

\* The query of _to_ask_response over the followups table F: the follow-ups of
\* the question, of any status, in creation order, the first
\* FOLLOWUP_OPTIONS_COUNT of them.
FollowupOptions(F, qid) ==
    LET rows == FollowupsInOrder({f \in DOMAIN F : F[f].qid = qid})
    IN SubSeq(rows, 1, IF Len(rows) < FOLLOWUP_OPTIONS_COUNT THEN Len(rows)
                       ELSE FOLLOWUP_OPTIONS_COUNT)

ToAskResponse(q) ==
    [code |-> "200", qid |-> q.id, rid |-> q.rid,
     answer |-> (CHOOSE a \in answers : a.qid = q.id).text, oid |-> NoId, wallet |-> 0,
     options |-> FollowupOptions(followups, q.id)]

\* Faulty variant: _execute_ask goes to the reserve step without the replay check.
ReplayCheckSkipped(p, r) ==
    /\ req' = [req EXCEPT ![p] = r]
    /\ pc' = [pc EXCEPT ![p] = "lock"]
    /\ UNCHANGED resp

\* The replay check that opens _execute_ask, for the request r of handler p.
ReplayCheck(p, r) ==
    LET found == ExistingAsk(r.user, r.key) IN
      /\ req' = [req EXCEPT ![p] = r]
      /\ IF found # {}
           THEN /\ resp' = [resp EXCEPT ![p] = ToAskResponse(CHOOSE q \in found : TRUE)]
                /\ pc' = [pc EXCEPT ![p] = IF r.op = "ask" THEN "done" ELSE "link"]
           ELSE /\ pc' = [pc EXCEPT ![p] = "lock"]
                /\ UNCHANGED resp

\* POST /api/v1/ask with a client Idempotency-Key: the handler's first
\* statement is the replay check of _execute_ask.
Ask(p, u, k) ==
    /\ CanStart(p)
    /\ ReplayCheck(p, [NoReq EXCEPT !.op = "ask", !.user = u, !.key = <<"client", k>>,
                                    !.retry = ~TxUniqueOk(u, "refund", <<"client", k>>)])
    /\ UNCHANGED <<db, walletLock, orderLock>>
    /\ UNCHANGED <<hist, followupLock>>
    /\ Effect(p)

\* POST /api/v1/ask whose Idempotency-Key header is the string
\* "followup:<id>" of one of the caller's follow-ups: the header is any string
\* of at most 128 characters, and ask_followup derives the same string.
AskWithFollowupKey(p, u, f) ==
    /\ CanStart(p)
    /\ followups[f].user = u
    /\ ReplayCheck(p, [NoReq EXCEPT !.op = "ask", !.user = u, !.key = <<"followup", f>>,
                                    !.retry = ~TxUniqueOk(u, "refund", <<"followup", f>>)])
    /\ UNCHANGED <<db, walletLock, orderLock>>
    /\ UNCHANGED <<hist, followupLock>>
    /\ Effect(p)

\* SELECT credit_wallets ... FOR UPDATE: waits while another handler holds the
\* row lock; without a committed row it returns None at once.
AskLockWallet(p) ==
    /\ pc[p] = "lock"
    /\ LET u == req[p].user IN
         IF walletRow[u]
           THEN /\ walletLock[u] = NoProc
                /\ walletLock' = [walletLock EXCEPT ![u] = p]
                /\ pc' = [pc EXCEPT ![p] = "reserve"]
                /\ UNCHANGED resp
           ELSE /\ pc' = [pc EXCEPT ![p] = "mkwallet"]
                /\ UNCHANGED <<walletLock, resp>>
    /\ UNCHANGED <<db, orderLock, req>>
    /\ UNCHANGED <<hist, followupLock>>
    /\ Effect(p)

\* db.add(CreditWallet(balance=0)); db.flush(): the INSERT waits for a pending
\* insert of the same key and fails on a committed one (IntegrityError, not
\* caught by _execute_ask).
AskInsertWallet(p) ==
    /\ pc[p] = "mkwallet"
    /\ LET u == req[p].user IN
         IF walletRow[u]
           THEN /\ Return(p, Failure("crash"))
                /\ UNCHANGED walletLock
           ELSE /\ walletLock[u] = NoProc
                /\ walletLock' = [walletLock EXCEPT ![u] = p]
                /\ pc' = [pc EXCEPT ![p] = "reserve"]
                /\ UNCHANGED resp
    /\ UNCHANGED <<db, orderLock, req>>
    /\ UNCHANGED <<hist, followupLock>>
    /\ Effect(p)

\* Faulty variant: the balance is read without the row lock, before the last
\* committed change of the wallet (a stale read).
LockedBalanceBeforeLastCommit(u) ==
    LET rows == {i \in DOMAIN ledger : ledger[i].user = u /\ ledger[i].action # "capture"}
        last == CHOOSE i \in rows : \A j \in rows : j <= i
    IN IF ~walletRow[u] THEN 0
       ELSE IF rows = {} THEN balance[u]
       ELSE balance[u] - ledger[last].amount

\* wallet.balance as the handler holding the lock reads it (a wallet it has
\* just inserted holds 0).
LockedBalance(u) == IF walletRow[u] THEN balance[u] ELSE 0

\* Faulty variant: the reserve row is inserted without the decrement.
ReservedBalanceNoDecrement(u) == LockedBalance(u)

\* wallet.balance -= CREDIT_COST_PER_ASK
ReservedBalance(u) == LockedBalance(u) - CREDIT_COST_PER_ASK

\* Faulty variant: the refund row is inserted without the increment.
RefundedBalanceUnchanged(u) == LockedBalance(u)

\* wallet.balance += CREDIT_COST_PER_ASK
RefundedBalance(u) == LockedBalance(u) + CREDIT_COST_PER_ASK

\* Faulty variant: the reserve step has no balance check.
HasCreditUnchecked(u) == TRUE

\* The balance check of the reserve step.
HasCredit(u) == LockedBalance(u) >= CREDIT_COST_PER_ASK

\* Faulty variant: the reserve row is inserted and committed before the
\* balance check, so a 402 leaves it behind.
AskReserveKeepsRow(p) ==
    /\ pc[p] = "reserve"
    /\ LET u == req[p].user
           k == req[p].key
       IN
         /\ walletLock[u] = p
         /\ walletLock' = [walletLock EXCEPT ![u] = NoProc]
         /\ IF ~TxUniqueOk(u, "reserve", k)
              THEN /\ pc' = [pc EXCEPT ![p] = "conflict"]
                   /\ UNCHANGED <<walletRow, balance, ledger, resp>>
              ELSE /\ walletRow' = [walletRow EXCEPT ![u] = TRUE]
                   /\ ledger' = Append(ledger, Tx(u, "reserve", k, -CREDIT_COST_PER_ASK,
                                                  NoId, NoId, RequestId(p)))
                   /\ IF ~HasCredit(u)
                        THEN /\ Return(p, Failure("402"))
                             /\ balance' = [balance EXCEPT ![u] = LockedBalance(u)]
                        ELSE /\ balance' = [balance EXCEPT ![u] = ReservedBalance(u)]
                             /\ pc' = [pc EXCEPT ![p] = "generate"]
                             /\ UNCHANGED resp
    /\ UNCHANGED <<questions, answers, followups, orders, orderLock, req>>
    /\ UNCHANGED <<hist, followupLock>>
    /\ Effect(p)

\* Faulty variant: the reserve is flushed, not committed, so the row lock is
\* kept while the answer is generated.
AskReserveKeepsLock(p) ==
    /\ pc[p] = "reserve"
    /\ LET u == req[p].user
           k == req[p].key
       IN
         /\ walletLock[u] = p
         /\ IF ~HasCredit(u)
              THEN /\ Return(p, Failure("402"))
                   /\ walletLock' = [walletLock EXCEPT ![u] = NoProc]
                   /\ UNCHANGED <<walletRow, balance, ledger>>
              ELSE IF ~TxUniqueOk(u, "reserve", k)
                THEN /\ pc' = [pc EXCEPT ![p] = "conflict"]
                     /\ walletLock' = [walletLock EXCEPT ![u] = NoProc]
                     /\ UNCHANGED <<walletRow, balance, ledger, resp>>
                ELSE /\ walletRow' = [walletRow EXCEPT ![u] = TRUE]
                     /\ balance' = [balance EXCEPT ![u] = ReservedBalance(u)]
                     /\ ledger' = Append(ledger, Tx(u, "reserve", k, -CREDIT_COST_PER_ASK,
                                                    NoId, NoId, RequestId(p)))
                     /\ pc' = [pc EXCEPT ![p] = "generate"]
                     /\ UNCHANGED <<walletLock, resp>>
    /\ UNCHANGED <<questions, answers, followups, orders, orderLock, req>>
    /\ UNCHANGED <<hist, followupLock>>
    /\ Effect(p)

\* The balance check, the decrement, the reserve row and the commit; a
\* rollback drops a wallet the handler had inserted.
AskReserve(p) ==
    /\ pc[p] = "reserve"
    /\ LET u == req[p].user
           k == req[p].key
       IN
         /\ walletLock[u] = p
         /\ walletLock' = [walletLock EXCEPT ![u] = NoProc]
         /\ IF ~HasCredit(u)
              THEN /\ Return(p, Failure("402"))
                   /\ UNCHANGED <<walletRow, balance, ledger>>
              ELSE IF ~TxUniqueOk(u, "reserve", k)
                THEN /\ pc' = [pc EXCEPT ![p] = "conflict"]
                     /\ UNCHANGED <<walletRow, balance, ledger, resp>>
                ELSE /\ walletRow' = [walletRow EXCEPT ![u] = TRUE]
                     /\ balance' = [balance EXCEPT ![u] = ReservedBalance(u)]
                     /\ ledger' = Append(ledger, Tx(u, "reserve", k, -CREDIT_COST_PER_ASK,
                                                    NoId, NoId, RequestId(p)))
                     /\ pc' = [pc EXCEPT ![p] = "generate"]
                     /\ UNCHANGED resp
    /\ UNCHANGED <<questions, answers, followups, orders, orderLock, req>>
    /\ UNCHANGED <<hist, followupLock>>
    /\ Effect(p)

\* After the IntegrityError of the reserve commit: replay, or 409.
AskConflictReplay(p) ==
    /\ pc[p] = "conflict"
    /\ LET found == ExistingAsk(req[p].user, req[p].key) IN
         IF found # {}
           THEN Return(p, ToAskResponse(CHOOSE q \in found : TRUE))
           ELSE Return(p, Failure("409"))
    /\ UNCHANGED <<db, walletLock, orderLock, req>>
    /\ UNCHANGED <<hist, followupLock>>
    /\ Effect(p)

\* uq_questions_user_id_idempotency_key
QuestionUniqueOk(u, k) == ~\E q \in questions : q.user = u /\ q.key = k

\* _build_followup_contents: three distinct contents for a question text.
BuildFollowupContents(text) == [i \in 1..FOLLOWUP_OPTIONS_COUNT |-> <<"followup", text[2], i>>]

\* _ensure_followups_for_question for a question that has no follow-up yet.
EnsureFollowupsForQuestion(qid, u, text, rid) ==
    [f \in {<<qid, i>> : i \in 1..FOLLOWUP_OPTIONS_COUNT} |->
        [qid |-> qid, user |-> u, content |-> BuildFollowupContents(text)[f[2]],
         status |-> "pending", used_at |-> FALSE, used_qid |-> NoId, origin |-> rid]]

\* The text the pipeline is asked: the payload's question, or the content of
\* the follow-up.
AskedText(p) ==
    IF req[p].op = "ask" THEN QuestionText(p) ELSE followups[req[p].fid].content

\* Faulty variant: the question, the answer and the follow-ups are committed
\* without the capture row.
AskGenerateOkNoCapture(p) ==
    /\ pc[p] = "generate"
    /\ LET u == req[p].user
           k == req[p].key
           qid == NewQuestionId(p)
           q == [id |-> qid, user |-> u, key |-> k, status |-> "succeeded",
                 rid |-> RequestId(p), text |-> AskedText(p)]
       IN
         /\ QuestionUniqueOk(u, k)
         /\ questions' = questions \cup {q}
         /\ answers' = answers \cup {[qid |-> qid, text |-> BuildMockAnswerText(q.text)]}
         /\ followups' = followups @@ EnsureFollowupsForQuestion(qid, u, q.text, q.rid)
         /\ Return(p, [NoResp EXCEPT !.code = "200", !.qid = qid, !.rid = q.rid,
                                      !.answer = BuildMockAnswerText(q.text),
                                      !.options = FollowupOptions(followups', qid)])
    /\ UNCHANGED <<walletRow, balance, walletLock, ledger, orders, orderLock, req>>
    /\ UNCHANGED <<hist, followupLock>>
    /\ Effect(p)

\* Faulty variant: the capture takes its amount from the balance once more.
AskGenerateOkChargesBalance(p) ==
    /\ pc[p] = "generate"
    /\ LET u == req[p].user
           k == req[p].key
           qid == NewQuestionId(p)
           q == [id |-> qid, user |-> u, key |-> k, status |-> "succeeded",
                 rid |-> RequestId(p), text |-> AskedText(p)]
       IN
         /\ QuestionUniqueOk(u, k)
         /\ TxUniqueOk(u, "capture", k)
         /\ questions' = questions \cup {q}
         /\ answers' = answers \cup {[qid |-> qid, text |-> BuildMockAnswerText(q.text)]}
         /\ followups' = followups @@ EnsureFollowupsForQuestion(qid, u, q.text, q.rid)
         /\ ledger' = Append(ledger, Tx(u, "capture", k, -CREDIT_COST_PER_ASK, qid,
                                        NoId, RequestId(p)))
         /\ balance' = [balance EXCEPT ![u] = @ - CREDIT_COST_PER_ASK]
         /\ Return(p, [NoResp EXCEPT !.code = "200", !.qid = qid, !.rid = q.rid,
                                      !.answer = BuildMockAnswerText(q.text),
                                      !.options = FollowupOptions(followups', qid)])
    /\ UNCHANGED <<walletRow, walletLock, orders, orderLock, req>>
    /\ UNCHANGED <<hist, followupLock>>
    /\ Effect(p)

\* The success bundle: question, answer, follow-ups and capture in one commit.
AskGenerateOk(p) ==
    /\ pc[p] = "generate"
    /\ LET u == req[p].user
           k == req[p].key
           qid == NewQuestionId(p)
           q == [id |-> qid, user |-> u, key |-> k, status |-> "succeeded",
                 rid |-> RequestId(p), text |-> AskedText(p)]
       IN
         /\ QuestionUniqueOk(u, k)
         /\ TxUniqueOk(u, "capture", k)
         /\ questions' = questions \cup {q}
         /\ answers' = answers \cup {[qid |-> qid, text |-> BuildMockAnswerText(q.text)]}
         /\ followups' = followups @@ EnsureFollowupsForQuestion(qid, u, q.text, q.rid)
         /\ ledger' = Append(ledger, Tx(u, "capture", k, -CREDIT_COST_PER_ASK, qid,
                                        NoId, RequestId(p)))
         /\ Return(p, [NoResp EXCEPT !.code = "200", !.qid = qid, !.rid = q.rid,
                                      !.answer = BuildMockAnswerText(q.text),
                                      !.options = FollowupOptions(followups', qid)])
    /\ UNCHANGED <<walletRow, balance, walletLock, orders, orderLock, req>>
    /\ UNCHANGED <<hist, followupLock>>
    /\ Effect(p)

\* ------------------------------------------------- _refund_reserved_credit
\* Faulty variant: the except branch raises 500 without calling _refund_reserved_credit.
AskGenerateFailNoRefund(p) ==
    /\ pc[p] = "generate"
    /\ Return(p, Failure("500"))
    /\ UNCHANGED <<db, walletLock, orderLock, req>>
    /\ UNCHANGED <<hist, followupLock>>
    /\ Effect(p)

\* Any exception inside the try block: rollback, then the refund, whose first
\* statement looks for the refund row (refund_exists) and returns when it is
\* there; the caller then raises 500 ASK_PROCESSING_FAILED.
AskGenerateFail(p) ==
    /\ pc[p] = "generate"
    /\ IF ~TxUniqueOk(req[p].user, "refund", req[p].key)
         THEN Return(p, Failure("500"))
         ELSE /\ pc' = [pc EXCEPT ![p] = "refund_lock"]
              /\ UNCHANGED resp
    /\ UNCHANGED <<db, walletLock, orderLock, req>>
    /\ UNCHANGED <<hist, followupLock>>
    /\ Effect(p)

\* SELECT credit_wallets ... FOR UPDATE (the row exists: the reserve committed it).
RefundLock(p) ==
    /\ pc[p] = "refund_lock"
    /\ walletRow[req[p].user]
    /\ walletLock[req[p].user] = NoProc
    /\ walletLock' = [walletLock EXCEPT ![req[p].user] = p]
    /\ pc' = [pc EXCEPT ![p] = "refund_commit"]
    /\ UNCHANGED <<db, orderLock, req, resp>>
    /\ UNCHANGED <<hist, followupLock>>
    /\ Effect(p)

\* Faulty variant: the increment and the refund row are committed whether or
\* not (user, key) has a refund row (no unique constraint on the refund).
RefundCommitNoConstraint(p) ==
    /\ pc[p] = "refund_commit"
    /\ LET u == req[p].user
           k == req[p].key
       IN
         /\ walletLock[u] = p
         /\ walletLock' = [walletLock EXCEPT ![u] = NoProc]
         /\ balance' = [balance EXCEPT ![u] = RefundedBalance(u)]
         /\ ledger' = Append(ledger, Tx(u, "refund", k, CREDIT_COST_PER_ASK,
                                        NoId, NoId, RequestId(p)))
         /\ Return(p, Failure("500"))
    /\ UNCHANGED <<walletRow, questions, answers, followups, orders, orderLock, req>>
    /\ UNCHANGED <<hist, followupLock>>
    /\ Effect(p)

\* Faulty variant: the refund rewrites the reserve row of (user, key) into the
\* refund row instead of inserting a new row.
RefundCommitRewritesReserve(p) ==
    /\ pc[p] = "refund_commit"
    /\ LET u == req[p].user
           k == req[p].key
           i == CHOOSE j \in DOMAIN ledger : j \in TxRows(u, "reserve", k)
       IN
         /\ walletLock[u] = p
         /\ walletLock' = [walletLock EXCEPT ![u] = NoProc]
         /\ balance' = [balance EXCEPT ![u] = RefundedBalance(u)]
         /\ ledger' = [ledger EXCEPT ![i] = Tx(u, "refund", k, CREDIT_COST_PER_ASK,
                                               NoId, NoId, RequestId(p))]
         /\ Return(p, Failure("500"))
    /\ UNCHANGED <<walletRow, questions, answers, followups, orders, orderLock, req>>
    /\ UNCHANGED <<hist, followupLock>>
    /\ Effect(p)

\* The increment, the refund row and the commit; then the caller of
\* _refund_reserved_credit raises 500 ASK_PROCESSING_FAILED.
RefundCommit(p) ==
    /\ pc[p] = "refund_commit"
    /\ LET u == req[p].user
           k == req[p].key
       IN
         /\ walletLock[u] = p
         /\ walletLock' = [walletLock EXCEPT ![u] = NoProc]
         /\ IF TxUniqueOk(u, "refund", k)
              THEN /\ balance' = [balance EXCEPT ![u] = RefundedBalance(u)]
                   /\ ledger' = Append(ledger, Tx(u, "refund", k, CREDIT_COST_PER_ASK,
                                                  NoId, NoId, RequestId(p)))
                   /\ Return(p, Failure("500"))
              ELSE /\ Return(p, Failure("crash"))
                   /\ UNCHANGED <<balance, ledger>>
    /\ UNCHANGED <<walletRow, questions, answers, followups, orders, orderLock, req>>
    /\ UNCHANGED <<hist, followupLock>>
    /\ Effect(p)

\* ------------------------------------------------------------ ask_followup
\* A follow-up id no row has.
MissingFid == <<NoId, 1>>

\* Faulty variant: a follow-up of any status is taken for pending.
FollowupPendingUnchecked(f) == TRUE

\* if followup.status != "pending": raise 409
FollowupPending(f) == followups[f].status = "pending"

\* Faulty variant: the owner check is left out.
FollowupOwnedUnchecked(f, u) == TRUE

\* if followup.user_id != auth_context.user_id: raise 403
FollowupOwned(f, u) == followups[f].user = u

\* Faulty variant: the pipeline is keyed by the parent question, so all the
\* follow-ups of a question share one idempotency key.
AskFollowupKeyedByQuestion(p, u, f) ==
    /\ CanStart(p)
    /\ req' = [req EXCEPT ![p] = [NoReq EXCEPT !.op = "followup", !.user = u,
                                        !.key = <<"followup", <<f[1], 1>>>>, !.fid = f,
                                        !.retry = ~TxUniqueOk(u, "refund",
                                                              <<"followup", <<f[1], 1>>>>)]]
    /\ IF f \notin DOMAIN followups
         THEN /\ resp' = [resp EXCEPT ![p] = Failure("404")]
              /\ pc' = [pc EXCEPT ![p] = "done"]
              /\ UNCHANGED followups
         ELSE IF ~FollowupOwned(f, u)
           THEN /\ resp' = [resp EXCEPT ![p] = Failure("403")]
                /\ pc' = [pc EXCEPT ![p] = "done"]
                /\ UNCHANGED followups
           ELSE IF ~FollowupPending(f)
             THEN /\ resp' = [resp EXCEPT ![p] = Failure("409_used")]
                  /\ pc' = [pc EXCEPT ![p] = "done"]
                  /\ UNCHANGED followups
             ELSE /\ followups' = [followups EXCEPT ![f].status = "used",
                                                    ![f].used_at = TRUE]
                  /\ pc' = [pc EXCEPT ![p] = "replay"]
                  /\ UNCHANGED resp
    /\ UNCHANGED <<walletRow, balance, walletLock, ledger, questions, answers,
                   orders, orderLock>>
    /\ UNCHANGED <<hist, followupLock>>
    /\ Effect(p)

\* POST /api/v1/followups/{id}/ask up to its first commit: the row is locked,
\* checked (404, 403, 409), marked used and committed.
AskFollowup(p, u, f) ==
    /\ CanStart(p)
    /\ req' = [req EXCEPT ![p] = [NoReq EXCEPT !.op = "followup", !.user = u,
                                        !.key = <<"followup", f>>, !.fid = f,
                                        !.retry = ~TxUniqueOk(u, "refund", <<"followup", f>>)]]
    /\ IF f \notin DOMAIN followups
         THEN /\ resp' = [resp EXCEPT ![p] = Failure("404")]
              /\ pc' = [pc EXCEPT ![p] = "done"]
              /\ UNCHANGED followups
         ELSE IF ~FollowupOwned(f, u)
           THEN /\ resp' = [resp EXCEPT ![p] = Failure("403")]
                /\ pc' = [pc EXCEPT ![p] = "done"]
                /\ UNCHANGED followups
           ELSE IF ~FollowupPending(f)
             THEN /\ resp' = [resp EXCEPT ![p] = Failure("409_used")]
                  /\ pc' = [pc EXCEPT ![p] = "done"]
                  /\ UNCHANGED followups
             ELSE /\ followups' = [followups EXCEPT ![f].status = "used",
                                                    ![f].used_at = TRUE]
                  /\ pc' = [pc EXCEPT ![p] = "replay"]
                  /\ UNCHANGED resp
    /\ UNCHANGED <<walletRow, balance, walletLock, ledger, questions, answers,
                   orders, orderLock>>
    /\ UNCHANGED <<hist, followupLock>>
    /\ Effect(p)

\* The replay check of the _execute_ask that ask_followup calls.
FollowupReplayCheck(p) ==
    /\ pc[p] = "replay"
    /\ ReplayCheck(p, req[p])
    /\ UNCHANGED <<db, walletLock, orderLock>>
    /\ UNCHANGED <<hist, followupLock>>
    /\ Effect(p)

\* _execute_ask raised an HTTPException: the follow-up goes back to pending
\* when it is used and not linked, and the exception is raised again.
FollowupRestore(p) ==
    /\ pc[p] = "restore"
    /\ LET f == req[p].fid IN
         IF followups[f].status = "used" /\ followups[f].used_qid = NoId
           THEN followups' = [followups EXCEPT ![f].status = "pending",
                                               ![f].used_at = FALSE]
           ELSE UNCHANGED followups
    /\ pc' = [pc EXCEPT ![p] = "done"]
    /\ UNCHANGED <<walletRow, balance, walletLock, ledger, questions, answers,
                   orders, orderLock, req, resp>>
    /\ UNCHANGED <<hist, followupLock>>
    /\ Effect(p)

\* Faulty variant: the link is the id this handler would give a new question,
\* not the id _execute_ask returned.
LinkedQuestionIdOwn(p) == NewQuestionId(p)

\* tracked.used_question_id = question_id
LinkedQuestionId(p) == resp[p].qid

\* _execute_ask returned: used_question_id is set to the question it returned.
FollowupLink(p) ==
    /\ pc[p] = "link"
    /\ followups' = [followups EXCEPT ![req[p].fid].used_qid = LinkedQuestionId(p)]
    /\ pc' = [pc EXCEPT ![p] = "done"]
    /\ UNCHANGED <<walletRow, balance, walletLock, ledger, questions, answers,
                   orders, orderLock, req, resp>>
    /\ UNCHANGED <<hist, followupLock>>
    /\ Effect(p)

\* ------------------------------------------------------------ create_order
OrderKeys == {"O1"}
\* The package sizes requested (of ORDER_AMOUNT_TWD_BY_PACKAGE_SIZE's 1, 3, 5).
PackageSizes == {1, 3}

OrdersOf(u, k) == {o \in DOMAIN orders : orders[o].user = u /\ orders[o].key = k}

\* Faulty variant: the table has no unique constraint on (user, key).
OrderUniqueOkNoConstraint(u, k) == TRUE

\* uq_orders_user_id_idempotency_key: may the row be inserted?
OrderUniqueOk(u, k) == OrdersOf(u, k) = {}

\* POST /api/v1/orders up to the lookup of an existing order of (user, key).
CreateOrder(p, u, k, n) ==
    /\ CanStart(p)
    /\ req' = [req EXCEPT ![p] = [NoReq EXCEPT !.op = "order", !.user = u,
                                        !.key = <<"order", k>>, !.size = n]]
    /\ IF OrdersOf(u, <<"order", k>>) # {}
         THEN /\ resp' = [resp EXCEPT ![p] = [NoResp EXCEPT !.code = "200",
                             !.oid = CHOOSE o \in OrdersOf(u, <<"order", k>>) : TRUE]]
              /\ pc' = [pc EXCEPT ![p] = "done"]
         ELSE /\ pc' = [pc EXCEPT ![p] = "order_insert"]
              /\ UNCHANGED resp
    /\ UNCHANGED <<db, walletLock, orderLock>>
    /\ UNCHANGED <<hist, followupLock>>
    /\ Effect(p)

\* The insert and its commit; on the IntegrityError of
\* uq_orders_user_id_idempotency_key the existing order is read and returned.
CreateOrderCommit(p) ==
    /\ pc[p] = "order_insert"
    /\ LET u == req[p].user
           k == req[p].key
       IN
         IF ~OrderUniqueOk(u, k)
           THEN /\ resp' = [resp EXCEPT ![p] = [NoResp EXCEPT !.code = "200",
                               !.oid = CHOOSE o \in OrdersOf(u, k) : TRUE]]
                /\ UNCHANGED orders
           ELSE /\ orders' = orders @@ (p :> [user |-> u, key |-> k, size |-> req[p].size,
                                              status |-> "pending", paid_at |-> FALSE])
                /\ resp' = [resp EXCEPT ![p] = [NoResp EXCEPT !.code = "201", !.oid = p]]
    /\ pc' = [pc EXCEPT ![p] = "done"]
    /\ UNCHANGED <<walletRow, balance, walletLock, ledger, questions, answers,
                   followups, orderLock, req>>
    /\ UNCHANGED <<hist, followupLock>>
    /\ Effect(p)

\* ----------------------------------------------------- simulate_order_paid
\* An order id no row has.
MissingOid == NumRequests + 1

\* Faulty variant: the order is selected by its id alone, whoever owns it.
SimulateOrderPaidAnyOwner(p, u, o) ==
    /\ CanStart(p)
    /\ req' = [req EXCEPT ![p] = [NoReq EXCEPT !.op = "paid", !.user = u, !.oid = o]]
    /\ IF o \in DOMAIN orders
         THEN /\ orderLock[o] = NoProc
              /\ orderLock' = [orderLock EXCEPT ![o] = p]
              /\ pc' = [pc EXCEPT ![p] = "paid_wallet"]
              /\ UNCHANGED resp
         ELSE /\ resp' = [resp EXCEPT ![p] = Failure("404")]
              /\ pc' = [pc EXCEPT ![p] = "done"]
              /\ UNCHANGED orderLock
    /\ UNCHANGED <<db, walletLock>>
    /\ UNCHANGED <<hist, followupLock>>
    /\ Effect(p)

\* POST /api/v1/orders/{id}/simulate-paid up to SELECT orders ... WHERE id AND
\* user_id FOR UPDATE: 404 without such a row, else the row lock.
SimulateOrderPaid(p, u, o) ==
    /\ CanStart(p)
    /\ req' = [req EXCEPT ![p] = [NoReq EXCEPT !.op = "paid", !.user = u, !.oid = o]]
    /\ IF o \in DOMAIN orders /\ orders[o].user = u
         THEN /\ orderLock[o] = NoProc
              /\ orderLock' = [orderLock EXCEPT ![o] = p]
              /\ pc' = [pc EXCEPT ![p] = "paid_wallet"]
              /\ UNCHANGED resp
         ELSE /\ resp' = [resp EXCEPT ![p] = Failure("404")]
              /\ pc' = [pc EXCEPT ![p] = "done"]
              /\ UNCHANGED orderLock
    /\ UNCHANGED <<db, walletLock>>
    /\ UNCHANGED <<hist, followupLock>>
    /\ Effect(p)

\* _get_or_create_wallet_for_update: INSERT ... ON CONFLICT DO NOTHING, then
\* SELECT ... FOR UPDATE; both wait for a pending insert or a held row lock.
GetOrCreateWalletForUpdate(p) ==
    /\ pc[p] = "paid_wallet"
    /\ walletLock[req[p].user] = NoProc
    /\ walletLock' = [walletLock EXCEPT ![req[p].user] = p]
    /\ pc' = [pc EXCEPT ![p] = "paid_commit"]
    /\ UNCHANGED <<db, orderLock, req, resp>>
    /\ UNCHANGED <<hist, followupLock>>
    /\ Effect(p)

PurchaseKey(o) == <<"order", o, "purchase">>

\* Faulty variant: no early return for an order that is already paid.
OrderPaidIgnored(o) == FALSE

\* if order.status == "paid"
OrderPaid(o) == orders[o].status = "paid"

\* Faulty variant: an order of any status is taken for pending.
OrderPendingUnchecked(o) == TRUE

\* if order.status != "pending": raise 409
OrderPending(o) == orders[o].status = "pending"

\* The status checks, the purchase and the commit, under both locks.  A paid
\* order returns without a commit: the session's close rolls back.
SimulateOrderPaidCommit(p) ==
    /\ pc[p] = "paid_commit"
    /\ LET u == req[p].user
           o == req[p].oid
       IN
         /\ walletLock' = [walletLock EXCEPT ![u] = NoProc]
         /\ orderLock' = [orderLock EXCEPT ![o] = NoProc]
         /\ IF OrderPaid(o)
              THEN /\ resp' = [resp EXCEPT ![p] = [NoResp EXCEPT !.code = "200", !.oid = o,
                                                      !.wallet = LockedBalance(u)]]
                   /\ UNCHANGED <<walletRow, balance, ledger, orders>>
              ELSE IF ~OrderPending(o)
                THEN /\ resp' = [resp EXCEPT ![p] = Failure("409_status")]
                     /\ UNCHANGED <<walletRow, balance, ledger, orders>>
                ELSE /\ walletRow' = [walletRow EXCEPT ![u] = TRUE]
                     /\ IF TxUniqueOk(u, "purchase", PurchaseKey(o))
                          THEN /\ balance' = [balance EXCEPT ![u] =
                                                LockedBalance(u) + orders[o].size]
                               /\ ledger' = Append(ledger, Tx(u, "purchase", PurchaseKey(o),
                                                 orders[o].size, NoId, o, RequestId(p)))
                          ELSE UNCHANGED <<balance, ledger>>
                     /\ orders' = [orders EXCEPT ![o].status = "paid", ![o].paid_at = TRUE]
                     /\ resp' = [resp EXCEPT ![p] = [NoResp EXCEPT !.code = "200", !.oid = o,
                                    !.wallet = balance'[u]]]
    /\ pc' = [pc EXCEPT ![p] = "done"]
    /\ UNCHANGED <<questions, answers, followups, req>>
    /\ UNCHANGED <<hist, followupLock>>
    /\ Effect(p)

\* ------------------------------------------------------------------- Next
Next ==
    \E p \in Procs :
        \/ \E u \in Users, k \in ClientKeys : Ask(p, u, k)
        \/ \E u \in Users, f \in DOMAIN followups : AskWithFollowupKey(p, u, f)
        \/ \E u \in Users, f \in DOMAIN followups \cup {MissingFid} : AskFollowup(p, u, f)
        \/ \E u \in Users, k \in OrderKeys, n \in PackageSizes : CreateOrder(p, u, k, n)
        \/ \E u \in Users, o \in DOMAIN orders \cup {MissingOid} : SimulateOrderPaid(p, u, o)
        \/ FollowupReplayCheck(p)
        \/ AskLockWallet(p)
        \/ AskInsertWallet(p)
        \/ AskReserve(p)
        \/ AskConflictReplay(p)
        \/ AskGenerateOk(p)
        \/ AskGenerateFail(p)
        \/ RefundLock(p)
        \/ RefundCommit(p)
        \/ FollowupRestore(p)
        \/ FollowupLink(p)
        \/ CreateOrderCommit(p)
        \/ GetOrCreateWalletForUpdate(p)
        \/ SimulateOrderPaidCommit(p)

Spec == Init /\ [][Next]_vars

\* ------------------------------------------------ a database with an order
\* The id of an order that was created before the requests modelled here.
PriorOid == NumRequests + 2
\* ck_orders_status_valid, without paid: what the prior order's status may be.
PriorStatuses == {"pending", "failed", "refunded"}

\* u1 has a wallet row with balance 0 and one order of package size 3 that an
\* earlier create_order inserted (pending) and that may since have been set
\* to failed or refunded in the table, as tests/test_orders_flow.py does.
InitPriorOrder ==
    /\ walletRow = [u \in Users |-> u = "u1"]
    /\ balance = [u \in Users |-> 0]
    /\ walletLock = [u \in Users |-> NoProc]
    /\ ledger = <<>>
    /\ questions = {}
    /\ answers = {}
    /\ followups = <<>>
    /\ \E st \in PriorStatuses :
         orders = (PriorOid :> [user |-> "u1", key |-> <<"order", "O0">>, size |-> 3,
                                status |-> st, paid_at |-> FALSE])
    /\ orderLock = [o \in Procs \cup {PriorOid} |-> NoProc]
    /\ pc = [p \in Procs |-> "idle"]
    /\ req = [p \in Procs |-> NoReq]
    /\ resp = [p \in Procs |-> NoResp]
    /\ effect = [p \in Procs |-> 0]
    /\ hist = NoHist
    /\ followupLock = {}

PriorOrderSpec == InitPriorOrder /\ [][Next]_vars

\* --------------------------------------- _refund_reserved_credit by itself
\* A call of _refund_reserved_credit for (u, k), whose reserve is committed, up
\* to its first statement: the lookup of the refund row (refund_exists), after
\* which it returns or goes on to lock the wallet.  The caller raises 500.
RefundInvoke(p, u, k) ==
    /\ CanStart(p)
    /\ ~TxUniqueOk(u, "reserve", <<"client", k>>)
    /\ req' = [req EXCEPT ![p] = [NoReq EXCEPT !.op = "ask", !.user = u,
                                        !.key = <<"client", k>>]]
    /\ IF ~TxUniqueOk(u, "refund", <<"client", k>>)
         THEN /\ resp' = [resp EXCEPT ![p] = Failure("500")]
              /\ pc' = [pc EXCEPT ![p] = "done"]
         ELSE /\ pc' = [pc EXCEPT ![p] = "refund_lock"]
              /\ UNCHANGED resp
    /\ UNCHANGED <<db, walletLock, orderLock>>
    /\ UNCHANGED <<hist, followupLock>>
    /\ Effect(p)

\* The request id of the pipelines that committed the reserves before the
\* calls modelled here.
PriorRequestId == NumRequests + 1

\* Both users have a wallet and every (user, key) has a committed reserve row
\* and neither capture nor refund: the state in which the except branch of
\* _execute_ask calls the refund.
InitRefund ==
    /\ walletRow = [u \in Users |-> TRUE]
    /\ \E b \in 0..MaxInitBalance : balance = [u \in Users |-> IF u = "u1" THEN b ELSE 0]
    /\ walletLock = [u \in Users |-> NoProc]
    /\ ledger = <<Tx("u1", "reserve", <<"client", "K1">>, -CREDIT_COST_PER_ASK,
                     NoId, NoId, PriorRequestId),
                  Tx("u1", "reserve", <<"client", "K2">>, -CREDIT_COST_PER_ASK,
                     NoId, NoId, PriorRequestId),
                  Tx("u2", "reserve", <<"client", "K1">>, -CREDIT_COST_PER_ASK,
                     NoId, NoId, PriorRequestId)>>
    /\ questions = {}
    /\ answers = {}
    /\ followups = <<>>
    /\ orders = <<>>
    /\ orderLock = [o \in Procs |-> NoProc]
    /\ pc = [p \in Procs |-> "idle"]
    /\ req = [p \in Procs |-> NoReq]
    /\ resp = [p \in Procs |-> NoResp]
    /\ effect = [p \in Procs |-> 0]
    /\ hist = NoHist
    /\ followupLock = {}

RefundNext ==
    \E p \in Procs :
        \/ \E u \in Users, k \in ClientKeys : RefundInvoke(p, u, k)
        \/ RefundLock(p)
        \/ RefundCommit(p)

RefundSpec == InitRefund /\ [][RefundNext]_vars

\* ------------------------------------------------------ history endpoints
\* The tables a history request reads, as one value.
Data == [questions |-> questions, answers |-> answers, followups |-> followups,
         ledger |-> ledger]

\* ORDER BY created_at DESC, id DESC of questions, by id.
RECURSIVE QuestionsNewestFirst(_)
QuestionsNewestFirst(S) ==
    IF S = {} THEN <<>>
    ELSE LET m == CHOOSE x \in S : \A y \in S : y <= x
         IN <<m>> \o QuestionsNewestFirst(S \ {m})

\* Faulty variant: the rows are not filtered by the caller.
VisibleIdsAnyUser(D, u) ==
    {q.id : q \in {x \in D.questions : /\ x.status = "succeeded"
                                       /\ \E a \in D.answers : a.qid = x.id}}

\* select(Question, Answer).join(Answer).where(user_id == caller, status ==
\* "succeeded"): the ids of the rows a history request can see.
VisibleIds(D, u) ==
    {q.id : q \in {x \in D.questions : /\ x.user = u /\ x.status = "succeeded"
                                       /\ \E a \in D.answers : a.qid = x.id}}

AnswerText(D, qid) == (CHOOSE a \in D.answers : a.qid = qid).text

\* Faulty variant: the sum runs over the caller's rows of every action.
ChargedCreditsAnyAction(D, u, qid) ==
    LET sum[i \in 0..Len(D.ledger)] ==
          IF i = 0 THEN 0
          ELSE sum[i - 1] + (IF D.ledger[i].user = u /\ D.ledger[i].qid = qid
                               THEN D.ledger[i].amount ELSE 0)
        total == sum[Len(D.ledger)]
    IN IF total < 0 THEN -total ELSE total

\* charged_map.get(question.id, 0): abs of the sum of the amounts of the
\* caller's capture rows that refer to the question.
ChargedCredits(D, u, qid) ==
    LET sum[i \in 0..Len(D.ledger)] ==
          IF i = 0 THEN 0
          ELSE sum[i - 1] + (IF /\ D.ledger[i].user = u /\ D.ledger[i].action = "capture"
                                /\ D.ledger[i].qid = qid
                               THEN D.ledger[i].amount ELSE 0)
        total == sum[Len(D.ledger)]
    IN IF total < 0 THEN -total ELSE total

\* Faulty variant: the list does not leave out the children of follow-ups.
UsedChildIdsNone(D, u) == {}

\* used_child_ids_subquery: the used_question_id of the caller's follow-ups.
UsedChildIds(D, u) ==
    {D.followups[f].used_qid :
        f \in {g \in DOMAIN D.followups : /\ D.followups[g].user = u
                                          /\ D.followups[g].used_qid # NoId}}

\* The rows of the history list before the page is cut.
HistoryRootIds(D, u) == VisibleIds(D, u) \ UsedChildIds(D, u)

\* .limit(limit).offset(offset) of a list.
Page(rows, limit, offset) ==
    LET last == IF offset + limit < Len(rows) THEN offset + limit ELSE Len(rows)
    IN SubSeq(rows, offset + 1, last)

\* The response of get_ask_history.
AskHistoryList(D, u, limit, offset) ==
    LET rows == Page(QuestionsNewestFirst(HistoryRootIds(D, u)), limit, offset)
    IN [NoHist EXCEPT !.op = "list", !.user = u, !.limit = limit, !.offset = offset,
                      !.code = "200",
                      !.items = [i \in 1..Len(rows) |->
                                   [qid |-> rows[i],
                                    charged |-> ChargedCredits(D, u, rows[i])]],
                      !.total = Cardinality(HistoryRootIds(D, u))]

\* The caller's follow-ups whose used_question_id is the question.
ParentFollowups(D, u, qid) ==
    {f \in DOMAIN D.followups : D.followups[f].user = u /\ D.followups[f].used_qid = qid}

\* Faulty variant: the walk to the root stops at the question it is given.
ResolveRootStaysPut(D, u, current, visited) == current

\* _resolve_root_question_id: the while loop, from current_id with the ids
\* visited so far.
RECURSIVE ResolveRootQuestionId(_, _, _, _)
ResolveRootQuestionId(D, u, current, visited) ==
    IF current \in visited THEN current
    ELSE LET parents == FollowupsInOrder(ParentFollowups(D, u, current))
         IN IF parents = <<>> THEN current
            ELSE ResolveRootQuestionId(D, u, D.followups[parents[1]].qid,
                                       visited \cup {current})

\* The for loop over followup_rows of one round of the expansion, from row i:
\* the edge is recorded once per parent, a child not yet visited joins next_ids.
RECURSIVE ScanFollowupRows(_, _, _, _)
ScanFollowupRows(D, rows, i, acc) ==
    IF i > Len(rows) THEN acc
    ELSE LET child == D.followups[rows[i]].used_qid
             parent == D.followups[rows[i]].qid
             kids == IF parent \in DOMAIN acc.children THEN acc.children[parent] ELSE <<>>
             children == IF \E j \in DOMAIN kids : kids[j] = child
                           THEN acc.children
                           ELSE [x \in DOMAIN acc.children \cup {parent} |->
                                   IF x = parent THEN Append(kids, child)
                                   ELSE acc.children[x]]
         IN ScanFollowupRows(D, rows, i + 1,
                IF child \in acc.visited
                  THEN [acc EXCEPT !.children = children]
                  ELSE [acc EXCEPT !.children = children,
                                   !.visited = @ \cup {child},
                                   !.next = @ \cup {child}])

\* Faulty variant: the expansion stops at the root.
ExpandNothing(D, u, frontier, acc) == acc

\* The while loop of the breadth-first expansion of get_ask_history_detail,
\* from a frontier with qa_map, children_map and visited in acc.
RECURSIVE Expand(_, _, _, _)
Expand(D, u, frontier, acc) ==
    LET rows == FollowupsInOrder({f \in DOMAIN D.followups :
                                     /\ D.followups[f].user = u
                                     /\ D.followups[f].qid \in frontier
                                     /\ D.followups[f].used_qid # NoId})
        scanned == ScanFollowupRows(D, rows, 1, [acc EXCEPT !.next = {}])
        found == scanned.next \cap VisibleIds(D, u)
    IN IF frontier = {} \/ rows = <<>> THEN acc
       ELSE IF scanned.next = {} THEN scanned
       ELSE Expand(D, u, found, [scanned EXCEPT !.qa = @ \cup found])

\* _build_history_detail_node at recursion depth d; NoNode when the recursion
\* passes the interpreter's limit (RecursionError).
RECURSIVE BuildHistoryDetailNode(_, _, _, _, _)
BuildHistoryDetailNode(D, u, qid, maps, d) ==
    IF d > RecursionLimit THEN NoNode
    ELSE LET kids == IF qid \in DOMAIN maps.children THEN maps.children[qid] ELSE <<>>
             kept == SelectSeq(kids, LAMBDA c : c \in maps.qa)
             nodes == [i \in 1..Len(kept) |->
                         BuildHistoryDetailNode(D, u, kept[i], maps, d + 1)]
         IN IF \E i \in 1..Len(kept) : nodes[i] = NoNode THEN NoNode
            ELSE [qid |-> qid, answer |-> AnswerText(D, qid),
                  charged |-> ChargedCredits(D, u, qid), children |-> nodes]

\* The capture and refund rows of the caller that refer to a question of the
\* tree, in creation order.
TreeTransactions(D, u, qa) ==
    SelectSeq(D.ledger, LAMBDA t : /\ t.user = u /\ t.qid \in qa
                                   /\ t.action \in {"capture", "refund"})

\* The response of get_ask_history_detail.
AskHistoryDetail(D, u, qid) ==
    LET request == [NoHist EXCEPT !.op = "detail", !.user = u, !.qid = qid]
        root == ResolveRootQuestionId(D, u, qid, {})
        maps == Expand(D, u, {root},
                       [qa |-> {root}, children |-> <<>>, visited |-> {root}, next |-> {}])
        node == BuildHistoryDetailNode(D, u, root, maps, 1)
    IN IF qid \notin VisibleIds(D, u) THEN [request EXCEPT !.code = "404"]
       ELSE IF root \notin VisibleIds(D, u) THEN [request EXCEPT !.code = "404"]
       ELSE IF node = NoNode THEN [request EXCEPT !.code = "crash"]
       ELSE [request EXCEPT !.code = "200", !.root = node,
                            !.transactions = TreeTransactions(D, u, maps.qa)]

\* The page sizes and offsets requested (limit is 1..50, offset is 0 or more).
HistoryLimits == {1, MaxQuestions}
HistoryOffsets == {0, 1}

\* GET /api/v1/history/questions
GetAskHistory(u, limit, offset) ==
    /\ hist.op = "none"
    /\ hist' = AskHistoryList(Data, u, limit, offset)
    /\ UNCHANGED <<db, walletLock, orderLock, followupLock, pc, req, resp, effect>>

\* GET /api/v1/history/questions/{question_id}
GetAskHistoryDetail(u, qid) ==
    /\ hist.op = "none"
    /\ hist' = AskHistoryDetail(Data, u, qid)
    /\ UNCHANGED <<db, walletLock, orderLock, followupLock, pc, req, resp, effect>>

\* The ids of the questions in the tables a history request is served from.
QuestionIds == 1..MaxQuestions
\* A question id no row has.
MissingQid == MaxQuestions + 1
QuestionStatuses == {"succeeded", "failed"}

\* A set of ids as the list in increasing order.
RECURSIVE Ascending(_)
Ascending(S) ==
    IF S = {} THEN <<>>
    ELSE LET m == CHOOSE x \in S : \A y \in S : x <= y
         IN <<m>> \o Ascending(S \ {m})

\* Tables as the tests of the history endpoints fill them, row by row: every
\* question has an owner and a status; a succeeded question has its answer
\* and its capture; every follow-up has an owner, a parent question and, when
\* used, a used_question_id, which may be any question (malformed links
\* included).  No request handler is running.
InitHistory ==
    /\ \E owner \in [QuestionIds -> Users], st \in [QuestionIds -> QuestionStatuses],
          parent \in [1..MaxFollowups -> QuestionIds],
          child \in [1..MaxFollowups -> QuestionIds \cup {NoId}],
          fowner \in [1..MaxFollowups -> Users] :
         LET ok == Ascending({i \in QuestionIds : st[i] = "succeeded"}) IN
           /\ questions = {[id |-> i, user |-> owner[i], key |-> <<"client", i>>,
                            status |-> st[i], rid |-> i, text |-> <<"text", i>>] :
                           i \in QuestionIds}
           /\ answers = {[qid |-> i, text |-> BuildMockAnswerText(<<"text", i>>)] :
                         i \in {j \in QuestionIds : st[j] = "succeeded"}}
           /\ followups = [f \in {<<parent[j], j>> : j \in 1..MaxFollowups} |->
                             [qid |-> f[1], user |-> fowner[f[2]],
                              content |-> <<"followup", f[1], f[2]>>,
                              status |-> IF child[f[2]] = NoId THEN "pending" ELSE "used",
                              used_at |-> child[f[2]] # NoId,
                              used_qid |-> child[f[2]], origin |-> f[1]]]
           /\ ledger = [n \in 1..Len(ok) |->
                          Tx(owner[ok[n]], "capture", <<"client", ok[n]>>,
                             -CREDIT_COST_PER_ASK, ok[n], NoId, ok[n])]
    /\ walletRow = [u \in Users |-> TRUE]
    /\ balance = [u \in Users |-> 0]
    /\ walletLock = [u \in Users |-> NoProc]
    /\ orders = <<>>
    /\ orderLock = [o \in Procs |-> NoProc]
    /\ pc = [p \in Procs |-> "idle"]
    /\ req = [p \in Procs |-> NoReq]
    /\ resp = [p \in Procs |-> NoResp]
    /\ effect = [p \in Procs |-> 0]
    /\ hist = NoHist
    /\ followupLock = {}

HistoryNext ==
    \/ \E u \in Users, limit \in HistoryLimits, offset \in HistoryOffsets :
         GetAskHistory(u, limit, offset)
    \/ \E u \in Users, qid \in QuestionIds \cup {MissingQid} :
         GetAskHistoryDetail(u, qid)

HistorySpec == InitHistory /\ [][HistoryNext]_vars

\* ------------------------------------------- a ledger filled row by row
\* The amount the rows of an action carry: -1 for reserve and capture, +1 for
\* refund, the package size for purchase.
AmountOf(a) ==
    IF a \in {"reserve", "capture"} THEN -CREDIT_COST_PER_ASK
    ELSE IF a = "refund" THEN CREDIT_COST_PER_ASK
    ELSE 3

LedgerActions == {"reserve", "capture", "refund", "purchase"}

\* Tables as tests/test_history_endpoints.py fills them: question 1 of u1 and
\* question 2 of either user, both succeeded and answered, a follow-up of u1
\* on question 1 that may be resolved into question 2, and MaxLedgerRows
\* ledger rows of any user and action, each referring to question 1, to
\* question 2 or to none.
InitCharges ==
    /\ \E owner \in Users, child \in {NoId, 2},
          tu \in [1..MaxLedgerRows -> Users],
          ta \in [1..MaxLedgerRows -> LedgerActions],
          tq \in [1..MaxLedgerRows -> {NoId, 1, 2}] :
         /\ questions = {[id |-> i, user |-> IF i = 1 THEN "u1" ELSE owner,
                          key |-> <<"client", i>>, status |-> "succeeded",
                          rid |-> i, text |-> <<"text", i>>] : i \in {1, 2}}
         /\ answers = {[qid |-> i, text |-> BuildMockAnswerText(<<"text", i>>)] :
                       i \in {1, 2}}
         /\ followups = (<<1, 1>> :>
                           [qid |-> 1, user |-> "u1", content |-> <<"followup", 1, 1>>,
                            status |-> IF child = NoId THEN "pending" ELSE "used",
                            used_at |-> child # NoId, used_qid |-> child, origin |-> 1])
         /\ ledger = [n \in 1..MaxLedgerRows |->
                        Tx(tu[n], ta[n], <<"client", n>>, AmountOf(ta[n]), tq[n], NoId, n)]
    /\ walletRow = [u \in Users |-> TRUE]
    /\ balance = [u \in Users |-> 0]
    /\ walletLock = [u \in Users |-> NoProc]
    /\ orders = <<>>
    /\ orderLock = [o \in Procs |-> NoProc]
    /\ pc = [p \in Procs |-> "idle"]
    /\ req = [p \in Procs |-> NoReq]
    /\ resp = [p \in Procs |-> NoResp]
    /\ effect = [p \in Procs |-> 0]
    /\ hist = NoHist
    /\ followupLock = {}

ChargeSpec == InitCharges /\ [][HistoryNext]_vars

\* ------------------------------------------------ ask without a usable key
\* The Idempotency-Key headers that carry no key: no header (None), the empty
\* string and a string of whitespace.
NoHeader == "None"
BlankHeaders == {NoHeader, "", " "}

\* (idempotency_key or "").strip()
NormalizedKey(h) == IF h = NoHeader \/ h = " " THEN "" ELSE h

\* Faulty variant: every request without a key is given the same key.
FreshKeyShared(p) == <<"uuid4", NoId>>

\* str(uuid4()): a key no other request has.
FreshKey(p) == <<"uuid4", p>>

\* POST /api/v1/ask with header h: an empty normalized key is replaced by a
\* fresh one, then the replay check of _execute_ask runs.
AskNoKey(p, u, h) ==
    /\ CanStart(p)
    /\ LET k == IF NormalizedKey(h) = "" THEN FreshKey(p)
                ELSE <<"client", NormalizedKey(h)>>
       IN ReplayCheck(p, [NoReq EXCEPT !.op = "ask", !.user = u, !.key = k,
                                       !.retry = ~TxUniqueOk(u, "refund", k)])
    /\ UNCHANGED <<db, walletLock, orderLock>>
    /\ UNCHANGED <<hist, followupLock>>
    /\ Effect(p)

\* Asks with and without a key, and the steps of their pipelines.
KeylessNext ==
    \E p \in Procs :
        \/ \E u \in Users, h \in BlankHeaders \cup ClientKeys : AskNoKey(p, u, h)
        \/ AskLockWallet(p)
        \/ AskInsertWallet(p)
        \/ AskReserve(p)
        \/ AskConflictReplay(p)
        \/ AskGenerateOk(p)
        \/ AskGenerateFail(p)
        \/ RefundLock(p)
        \/ RefundCommit(p)

KeylessSpec == Init /\ [][KeylessNext]_vars

\* --------------------------------- history list beside running requests
\* Asks and follow-up asks step by step, and one request for the history
\* list, which reads what is committed when it runs.
ThreadNext ==
    \/ \E p \in Procs :
          \/ \E u \in Users, k \in ClientKeys : Ask(p, u, k)
          \/ \E u \in Users, f \in DOMAIN followups \cup {MissingFid} : AskFollowup(p, u, f)
          \/ FollowupReplayCheck(p)
          \/ AskLockWallet(p)
          \/ AskInsertWallet(p)
          \/ AskReserve(p)
          \/ AskConflictReplay(p)
          \/ AskGenerateOk(p)
          \/ AskGenerateFail(p)
          \/ RefundLock(p)
          \/ RefundCommit(p)
          \/ FollowupRestore(p)
          \/ FollowupLink(p)
    \/ \E u \in Users, limit \in HistoryLimits, offset \in HistoryOffsets :
          GetAskHistory(u, limit, offset)

ThreadSpec == Init /\ [][ThreadNext]_vars

\* ------------------------------------------------- threads of follow-ups
\* As Init, with a wallet of u1 that pays for every request.
InitFunded ==
    /\ walletRow = [u \in Users |-> u = "u1"]
    /\ balance = [u \in Users |-> IF u = "u1" THEN NumRequests ELSE 0]
    /\ walletLock = [u \in Users |-> NoProc]
    /\ ledger = <<>>
    /\ questions = {}
    /\ answers = {}
    /\ followups = <<>>
    /\ orders = <<>>
    /\ orderLock = [o \in Procs |-> NoProc]
    /\ pc = [p \in Procs |-> "idle"]
    /\ req = [p \in Procs |-> NoReq]
    /\ resp = [p \in Procs |-> NoResp]
    /\ effect = [p \in Procs |-> 0]
    /\ hist = NoHist
    /\ followupLock = {}

\* Asks and follow-up asks, step by step.
FollowupNext ==
    \E p \in Procs :
        \/ \E u \in Users, k \in ClientKeys : Ask(p, u, k)
        \/ \E u \in Users, f \in DOMAIN followups : AskWithFollowupKey(p, u, f)
        \/ \E u \in Users, f \in DOMAIN followups \cup {MissingFid} : AskFollowup(p, u, f)
        \/ FollowupReplayCheck(p)
        \/ AskLockWallet(p)
        \/ AskInsertWallet(p)
        \/ AskReserve(p)
        \/ AskConflictReplay(p)
        \/ AskGenerateOk(p)
        \/ AskGenerateFail(p)
        \/ RefundLock(p)
        \/ RefundCommit(p)
        \/ FollowupRestore(p)
        \/ FollowupLink(p)

FundedSpec == InitFunded /\ [][FollowupNext]_vars

\* ------------------------------------- ask_followup, row lock by row lock
\* The statements of ask_followup with the wait for the follow-up row lock as
\* a step of its own: SELECT followups ... FOR UPDATE takes the lock, the
\* commit (or the rollback of the closing session) gives it back.
FollowupLockFree(f, p) == \A x \in followupLock : x[1] = f => x[2] = p

\* SELECT followups WHERE id FOR UPDATE: 404 without a row, else the row lock,
\* whoever owns the row.
AskFollowupLock(p, u, f) ==
    /\ CanStart(p)
    /\ req' = [req EXCEPT ![p] = [NoReq EXCEPT !.op = "followup", !.user = u,
                                        !.key = <<"followup", f>>, !.fid = f,
                                        !.retry = ~TxUniqueOk(u, "refund", <<"followup", f>>)]]
    /\ IF f \notin DOMAIN followups
         THEN /\ resp' = [resp EXCEPT ![p] = Failure("404")]
              /\ pc' = [pc EXCEPT ![p] = "done"]
              /\ UNCHANGED followupLock
         ELSE /\ FollowupLockFree(f, p)
              /\ followupLock' = followupLock \cup {<<f, p>>}
              /\ pc' = [pc EXCEPT ![p] = "followup_locked"]
              /\ UNCHANGED resp
    /\ UNCHANGED <<db, walletLock, orderLock, hist>>
    /\ Effect(p)

\* Faulty variant: the follow-up is marked used and flushed, not committed, so
\* the row lock is kept through the pipeline.
AskFollowupCommitKeepsLock(p) ==
    /\ pc[p] = "followup_locked"
    /\ LET f == req[p].fid
           u == req[p].user
       IN
         IF ~FollowupOwned(f, u)
           THEN /\ resp' = [resp EXCEPT ![p] = Failure("403")]
                /\ pc' = [pc EXCEPT ![p] = "done"]
                /\ followupLock' = followupLock \ {<<f, p>>}
                /\ UNCHANGED followups
           ELSE IF ~FollowupPending(f)
             THEN /\ resp' = [resp EXCEPT ![p] = Failure("409_used")]
                  /\ pc' = [pc EXCEPT ![p] = "done"]
                  /\ followupLock' = followupLock \ {<<f, p>>}
                  /\ UNCHANGED followups
             ELSE /\ followups' = [followups EXCEPT ![f].status = "used",
                                                    ![f].used_at = TRUE]
                  /\ pc' = [pc EXCEPT ![p] = "replay"]
                  /\ UNCHANGED <<resp, followupLock>>
    /\ UNCHANGED <<walletRow, balance, walletLock, ledger, questions, answers,
                   orders, orderLock, req, hist>>
    /\ Effect(p)

\* The checks (403, 409), the mark and the commit; an exception closes the
\* session.  Either way the row lock is given back.
AskFollowupCommit(p) ==
    /\ pc[p] = "followup_locked"
    /\ LET f == req[p].fid
           u == req[p].user
       IN
         /\ followupLock' = followupLock \ {<<f, p>>}
         /\ IF ~FollowupOwned(f, u)
              THEN /\ resp' = [resp EXCEPT ![p] = Failure("403")]
                   /\ pc' = [pc EXCEPT ![p] = "done"]
                   /\ UNCHANGED followups
              ELSE IF ~FollowupPending(f)
                THEN /\ resp' = [resp EXCEPT ![p] = Failure("409_used")]
                     /\ pc' = [pc EXCEPT ![p] = "done"]
                     /\ UNCHANGED followups
                ELSE /\ followups' = [followups EXCEPT ![f].status = "used",
                                                       ![f].used_at = TRUE]
                     /\ pc' = [pc EXCEPT ![p] = "replay"]
                     /\ UNCHANGED resp
    /\ UNCHANGED <<walletRow, balance, walletLock, ledger, questions, answers,
                   orders, orderLock, req, hist>>
    /\ Effect(p)

\* restore = SELECT followups WHERE id FOR UPDATE, after an HTTPException.
FollowupRestoreLock(p) ==
    /\ pc[p] = "restore"
    /\ FollowupLockFree(req[p].fid, p)
    /\ followupLock' = followupLock \cup {<<req[p].fid, p>>}
    /\ pc' = [pc EXCEPT ![p] = "restore_locked"]
    /\ UNCHANGED <<db, walletLock, orderLock, req, resp, hist>>
    /\ Effect(p)

\* The follow-up goes back to pending when it is used and not linked; the
\* commit, or the end of the request, gives the lock back.
FollowupRestoreCommit(p) ==
    /\ pc[p] = "restore_locked"
    /\ LET f == req[p].fid IN
         /\ IF followups[f].status = "used" /\ followups[f].used_qid = NoId
              THEN followups' = [followups EXCEPT ![f].status = "pending",
                                                  ![f].used_at = FALSE]
              ELSE UNCHANGED followups
         /\ followupLock' = {x \in followupLock : x[2] # p}
    /\ pc' = [pc EXCEPT ![p] = "done"]
    /\ UNCHANGED <<walletRow, balance, walletLock, ledger, questions, answers,
                   orders, orderLock, req, resp, hist>>
    /\ Effect(p)

\* tracked = SELECT followups WHERE id FOR UPDATE, after _execute_ask returned.
FollowupLinkLock(p) ==
    /\ pc[p] = "link"
    /\ FollowupLockFree(req[p].fid, p)
    /\ followupLock' = followupLock \cup {<<req[p].fid, p>>}
    /\ pc' = [pc EXCEPT ![p] = "link_locked"]
    /\ UNCHANGED <<db, walletLock, orderLock, req, resp, hist>>
    /\ Effect(p)

\* tracked.used_question_id = question_id and the commit.
FollowupLinkCommit(p) ==
    /\ pc[p] = "link_locked"
    /\ followups' = [followups EXCEPT ![req[p].fid].used_qid = LinkedQuestionId(p)]
    /\ followupLock' = {x \in followupLock : x[2] # p}
    /\ pc' = [pc EXCEPT ![p] = "done"]
    /\ UNCHANGED <<walletRow, balance, walletLock, ledger, questions, answers,
                   orders, orderLock, req, resp, hist>>
    /\ Effect(p)

\* Every handler, with the follow-up row lock taken and given back in steps
\* of their own.
LockNext ==
    \E p \in Procs :
        \/ \E u \in Users, k \in ClientKeys : Ask(p, u, k)
        \/ \E u \in Users, f \in DOMAIN followups \cup {MissingFid} : AskFollowupLock(p, u, f)
        \/ \E u \in Users, k \in OrderKeys, n \in PackageSizes : CreateOrder(p, u, k, n)
        \/ \E u \in Users, o \in DOMAIN orders \cup {MissingOid} : SimulateOrderPaid(p, u, o)
        \/ AskFollowupCommit(p)
        \/ FollowupReplayCheck(p)
        \/ AskLockWallet(p)
        \/ AskInsertWallet(p)
        \/ AskReserve(p)
        \/ AskConflictReplay(p)
        \/ AskGenerateOk(p)
        \/ AskGenerateFail(p)
        \/ RefundLock(p)
        \/ RefundCommit(p)
        \/ FollowupRestoreLock(p)
        \/ FollowupRestoreCommit(p)
        \/ FollowupLinkLock(p)
        \/ FollowupLinkCommit(p)
        \/ CreateOrderCommit(p)
        \/ GetOrCreateWalletForUpdate(p)
        \/ SimulateOrderPaidCommit(p)

\* The steps of a handler that has begun.
LockRun(p) ==
    \/ AskFollowupCommit(p)
    \/ FollowupReplayCheck(p)
    \/ AskLockWallet(p)
    \/ AskInsertWallet(p)
    \/ AskReserve(p)
    \/ AskConflictReplay(p)
    \/ AskGenerateOk(p)
    \/ AskGenerateFail(p)
    \/ RefundLock(p)
    \/ RefundCommit(p)
    \/ FollowupRestoreLock(p)
    \/ FollowupRestoreCommit(p)
    \/ FollowupLinkLock(p)
    \/ FollowupLinkCommit(p)
    \/ CreateOrderCommit(p)
    \/ GetOrCreateWalletForUpdate(p)
    \/ SimulateOrderPaidCommit(p)

\* A handler that has begun runs to completion, as in FairSpec.
LockFairSpec == Init /\ [][LockNext]_vars /\ \A p \in Procs : WF_vars(LockRun(p))

\* A handler that has begun runs to completion: every statement it waits on
\* (a row lock, the generation step) ends.  Requests need not arrive.
Run(p) ==
    \/ FollowupReplayCheck(p)
    \/ AskLockWallet(p)
    \/ AskInsertWallet(p)
    \/ AskReserve(p)
    \/ AskConflictReplay(p)
    \/ AskGenerateOk(p)
    \/ AskGenerateFail(p)
    \/ RefundLock(p)
    \/ RefundCommit(p)
    \/ FollowupRestore(p)
    \/ FollowupLink(p)
    \/ CreateOrderCommit(p)
    \/ GetOrCreateWalletForUpdate(p)
    \/ SimulateOrderPaidCommit(p)

FairSpec == Init /\ [][Next]_vars /\ \A p \in Procs : WF_vars(Run(p))

\* ======================================================================
\* Properties
\* ======================================================================
LedgerKeys(u) == {ledger[i].key : i \in {j \in DOMAIN ledger : ledger[j].user = u}}
Count(u, a, k) == Cardinality(TxRows(u, a, k))
Done(p) == pc[p] = "done"
IsAsk(p) == req[p].op = "ask"
SameKey(p, q) == req[p].user = req[q].user /\ req[p].key = req[q].key

\* C1: for every user U and idempotency key K the ledger holds at most one
\* reserve, at most one capture and at most one refund row of (U,K), and never
\* a capture together with a refund, however many asks with (U,K) ran.
C1_OneEffectPerKey ==
    \A u \in Users : \A k \in LedgerKeys(u) :
        /\ Count(u, "reserve", k) <= 1
        /\ Count(u, "capture", k) <= 1
        /\ Count(u, "refund", k) <= 1
        /\ ~(Count(u, "capture", k) > 0 /\ Count(u, "refund", k) > 0)

\* C1 witness: two asks with the same (U,K) ran concurrently (one answered,
\* the other met the reserve of the first); the key has its reserve and its
\* capture.
C1_Witness ==
    \E p, q \in Procs :
        /\ p # q /\ IsAsk(p) /\ IsAsk(q) /\ SameKey(p, q)
        /\ Done(p) /\ Done(q)
        /\ resp[p].code = "200" /\ resp[q].code = "409"
        /\ Count(req[p].user, "reserve", req[p].key) = 1
        /\ Count(req[p].user, "capture", req[p].key) = 1

\* C2 as stated: when ask is issued twice with the same (U,K), both calls
\* observe the same answer and request id; neither ends with another
\* outcome (402, 409) while the other returns an answer.
C2_SameOutcome ==
    \A p, q \in Procs :
        (/\ p # q /\ IsAsk(p) /\ IsAsk(q) /\ SameKey(p, q)
         /\ Done(p) /\ Done(q) /\ resp[p].code = "200")
        => resp[q] = resp[p]

\* C2 amended: all the asks with the same (U,K) that return an answer return
\* the same question, answer text and request id.
C2_SameAnswer ==
    \A p, q \in Procs :
        (/\ p # q /\ IsAsk(p) /\ IsAsk(q) /\ SameKey(p, q)
         /\ Done(p) /\ Done(q) /\ resp[p].code = "200" /\ resp[q].code = "200")
        => /\ resp[q].qid = resp[p].qid
           /\ resp[q].rid = resp[p].rid
           /\ resp[q].answer = resp[p].answer

\* C2 witness: two asks with the same (U,K) both returned an answer, one of
\* them the handler that created the question, and a third ask of the same
\* user created another question.
C2_Witness ==
    \E p, q, r \in Procs :
        /\ p # q /\ IsAsk(p) /\ IsAsk(q) /\ SameKey(p, q)
        /\ Done(p) /\ Done(q) /\ resp[p].code = "200" /\ resp[q].code = "200"
        /\ resp[p].qid = NewQuestionId(p)
        /\ IsAsk(r) /\ req[r].user = req[p].user /\ req[r].key # req[p].key
        /\ Done(r) /\ resp[r].code = "200"

\* Handler p committed a reserve row.
ReservedBy(p) ==
    \E i \in DOMAIN ledger : ledger[i].action = "reserve" /\ ledger[i].rid = RequestId(p)

\* The key of p's request has exactly one terminal row: a capture or a refund.
Matched(p) ==
    Count(req[p].user, "capture", req[p].key) + Count(req[p].user, "refund", req[p].key) = 1

\* _execute_ask of handler p has returned or raised.
PipelineEnded(p) == pc[p] \in {"done", "link", "restore"}

\* C3: every committed reserve of (U,K) is eventually followed by exactly one
\* capture or exactly one refund of (U,K), and no run of the ask pipeline
\* ends while its reserve has neither.
C3_ReserveMatched ==
    /\ [](\A p \in Procs : (ReservedBy(p) /\ PipelineEnded(p)) => Matched(p))
    /\ \A p \in Procs : ReservedBy(p) ~> Matched(p)

\* C3 witness: a handler reserved, its generation failed while another handler
\* of the same user had reserved too, and its key ended with one refund.
C3_Witness ==
    \E p, q \in Procs :
        /\ p # q /\ ReservedBy(p) /\ ReservedBy(q) /\ req[p].user = req[q].user
        /\ Done(p) /\ resp[p].code = "500"
        /\ Count(req[p].user, "refund", req[p].key) = 1
        /\ Count(req[p].user, "capture", req[p].key) = 0

\* C4: no wallet balance is ever negative, under any interleaving of ask,
\* follow-up ask, refund and simulate-paid, and no step decrements a balance
\* that is below the cost of one ask.
C4_BalanceNonNegative ==
    /\ [](\A u \in Users : balance[u] >= 0)
    /\ [][\A u \in Users : balance'[u] < balance[u] => balance[u] >= CREDIT_COST_PER_ASK]_vars

\* C4 witness: an ask took the last unit of a balance (reserve committed,
\* balance 0) and another ask of the same user was refused with 402.
C4_Witness ==
    \E p, q \in Procs :
        /\ p # q /\ req[p].user = req[q].user
        /\ ReservedBy(p) /\ balance[req[p].user] = 0
        /\ Done(q) /\ resp[q].code = "402"

\* C5: an ask that reserves changes its caller's balance by exactly -1 at the
\* reserve commit; the capture leaves the balance as it is, so a successful
\* ask nets -1; a failed generation nets 0 once the refund is committed.
\* effect[p] sums what p's own statements did, whatever else interleaved.
C5_NetEffect ==
    \A p \in Procs :
        /\ pc[p] \in {"generate", "refund_lock", "refund_commit"} => effect[p] = -1
        /\ (ReservedBy(p) /\ PipelineEnded(p) /\ resp[p].code = "200") => effect[p] = -1
        /\ (ReservedBy(p) /\ PipelineEnded(p) /\ resp[p].code = "500") => effect[p] = 0

\* C5 witness: the scenario of the specification: one ask succeeds under a
\* key, a second ask replays that key, a third ask under another key fails
\* and is refunded; the balance ends at 1.
C5_Witness ==
    \E p, q, r \in Procs :
        /\ IsAsk(p) /\ IsAsk(q) /\ IsAsk(r) /\ Done(p) /\ Done(q) /\ Done(r)
        /\ p # q /\ SameKey(p, q) /\ req[r].user = req[p].user /\ req[r].key # req[p].key
        /\ resp[p].code = "200" /\ resp[q] = resp[p] /\ resp[r].code = "500"
        /\ effect[p] + effect[q] = -1 /\ effect[r] = 0
        /\ balance[req[p].user] = 1
        /\ Count(req[r].user, "reserve", req[r].key) = 1
        /\ Count(req[r].user, "refund", req[r].key) = 1

\* The succeeded questions of (user, key).
Succeeded(u, k) == {q \in questions : q.user = u /\ q.key = k /\ q.status = "succeeded"}

\* Handler p serves an ask in this step, from the request to its first statement.
AskArrives(p) == pc[p] = "idle" /\ pc'[p] # "idle" /\ req'[p].op = "ask"

\* C6: an ask whose (U,K) already resolved to a succeeded question is a
\* replay: it ends in its first statement (no reserve, no generation), leaves
\* every table as it was, and returns the request id and answer text that the
\* handler that created the question returned.
C6_ReplayIdempotent ==
    [][\A p \in Procs :
         (AskArrives(p) /\ Succeeded(req'[p].user, req'[p].key) # {})
         => /\ pc'[p] = "done"
            /\ db' = db
            /\ \E q \in Succeeded(req'[p].user, req'[p].key) :
                 /\ resp'[p].code = "200"
                 /\ resp'[p].qid = q.id
                 /\ resp'[p].rid = resp[q.id].rid
                 /\ resp'[p].answer = resp[q.id].answer]_vars

\* C6 witness: an ask replayed the question of an earlier ask while the
\* caller's balance was 0.
C6_Witness ==
    \E p, q \in Procs :
        /\ p < q /\ IsAsk(p) /\ IsAsk(q) /\ SameKey(p, q) /\ Done(p) /\ Done(q)
        /\ resp[p].code = "200" /\ resp[p].qid = NewQuestionId(p) /\ resp[q] = resp[p]
        /\ effect[q] = 0 /\ balance[req[p].user] = 0
        /\ Len(ledger) = 2

\* C7 as stated: an ask made while the caller's balance is below the cost
\* fails with 402.  Stated for the asks that begin and end in one statement,
\* during which the balance is what it was.
C7_RefusedBelowCost ==
    [][\A p \in Procs :
         (AskArrives(p) /\ pc'[p] = "done" /\ LockedBalance(req'[p].user) < CREDIT_COST_PER_ASK)
         => resp'[p].code = "402"]_vars

\* C7 amended: an ask that reaches the balance check (its key has no succeeded
\* question to replay) and reads, under the wallet lock, a balance below the
\* cost fails with 402 and that statement changes no table; an ask that ended
\* with 402 has changed no balance and has inserted no ledger row, question,
\* answer or follow-up.
C7_InsufficientNoMutation ==
    /\ [][\A p \in Procs :
            (/\ pc[p] = "reserve" /\ pc'[p] # "reserve" /\ IsAsk(p)
             /\ LockedBalance(req[p].user) < CREDIT_COST_PER_ASK)
            => (resp'[p].code = "402" /\ db' = db)]_vars
    /\ [](\A p \in Procs :
            (IsAsk(p) /\ resp[p].code = "402")
            => /\ effect[p] = 0
               /\ \A i \in DOMAIN ledger : ledger[i].rid # RequestId(p)
               /\ \A q \in questions : q.id # NewQuestionId(p)
               /\ \A a \in answers : a.qid # NewQuestionId(p)
               /\ \A f \in DOMAIN followups : followups[f].origin # RequestId(p))

\* C7 witness: 402 for a user with a wallet of balance 0 and for a user with
\* no wallet row, who still has none.
C7_Witness ==
    \E p, q \in Procs :
        /\ IsAsk(p) /\ IsAsk(q) /\ Done(p) /\ Done(q)
        /\ resp[p].code = "402" /\ resp[q].code = "402"
        /\ walletRow[req[p].user] /\ balance[req[p].user] = 0
        /\ ~walletRow[req[q].user]

\* C8 as stated: an ask with (U,K) that arrives after a failed generation of
\* (U,K) was refunded is resolved by a replay or by a fresh attempt: it ends
\* with an answer, with a new failure, or short of credit, not with a conflict.
C8_RetryResolved ==
    \A p \in Procs :
        (IsAsk(p) /\ Done(p) /\ req[p].retry) => resp[p].code \in {"200", "500", "402"}

\* C9 as stated: ask answers 409 IDEMPOTENCY_CONFLICT for (U,K) only while a
\* reserve of (U,K) has neither a capture nor a refund.
C9_ConflictOnlyMidFlight ==
    [][\A p \in Procs :
         (resp[p].code # "409" /\ resp'[p].code = "409")
         => /\ Count(req[p].user, "reserve", req[p].key) = 1
            /\ Count(req[p].user, "capture", req[p].key) = 0
            /\ Count(req[p].user, "refund", req[p].key) = 0]_vars

\* C10: when _execute_ask raises 500 after its reserve committed, the refund
\* row of (U,K) is committed and the handler's net change of the balance is 0
\* from the state in which the error is raised on.
C10_RefundBeforeError ==
    \A p \in Procs :
        resp[p].code = "500"
        => /\ Count(req[p].user, "refund", req[p].key) = 1
           /\ Count(req[p].user, "capture", req[p].key) = 0
           /\ effect[p] = 0

\* C10 witness: an ask alone on its wallet returned 500; the ledger holds its
\* reserve and its refund and the balance is the initial one.
C10_Witness ==
    \E p \in Procs :
        /\ IsAsk(p) /\ Done(p) /\ resp[p].code = "500"
        /\ Len(ledger) = 2 /\ ledger[1].action = "reserve" /\ ledger[2].action = "refund"
        /\ ledger[1].rid = RequestId(p) /\ ledger[2].rid = RequestId(p)
        /\ balance[req[p].user] = MaxInitBalance

\* Handler p ended with code c.
Ended(p, c) == Done(p) /\ resp[p].code = c

\* C11: an ask that failed with 402 leaves nothing behind for its (U,K): no
\* ledger row is its own, and an ask q with the same (U,K), all of whose
\* fellow requests on (U,K) ended with 402, is never answered with a conflict;
\* when q returns an answer the key has exactly one reserve and one capture
\* and q took one unit.  The one other way q can end is the IntegrityError of
\* its own wallet insert, which needs q to have read the wallet before the
\* top-up committed the row: a wallet row is never removed, a request that
\* reads an existing row does not insert, and only the insert raises.
C11_RetryAfter402 ==
    /\ [](\A p \in Procs : \A i \in DOMAIN ledger :
            (IsAsk(p) /\ resp[p].code = "402") => ledger[i].rid # RequestId(p))
    /\ [](\A q \in Procs :
            (/\ IsAsk(q) /\ Done(q)
             /\ \E p \in Procs \ {q} : SameKey(p, q) /\ Ended(p, "402")
             /\ \A r \in Procs \ {q} : SameKey(r, q) => Ended(r, "402"))
            => /\ resp[q].code \in {"200", "402", "500", "crash"}
               /\ resp[q].code = "200"
                    => /\ Count(req[q].user, "reserve", req[q].key) = 1
                       /\ Count(req[q].user, "capture", req[q].key) = 1
                       /\ Count(req[q].user, "refund", req[q].key) = 0
                       /\ effect[q] = -CREDIT_COST_PER_ASK
                       /\ resp[q].qid = NewQuestionId(q))
    /\ [][/\ \A u \in Users : walletRow[u] => walletRow'[u]
          /\ \A q \in Procs :
               /\ (pc[q] # "mkwallet" /\ pc'[q] = "mkwallet") => ~walletRow[req[q].user]
               /\ (resp[q].code # "crash" /\ resp'[q].code = "crash") => pc[q] = "mkwallet"]_vars

\* C11 witness: an ask failed with 402, the order was paid, and the ask with
\* the same key then returned an answer; the key has one reserve and one
\* capture and the balance is the package size less one.
C11_Witness ==
    \E p, q, r \in Procs :
        /\ p < r /\ r < q
        /\ IsAsk(p) /\ IsAsk(q) /\ SameKey(p, q) /\ Ended(p, "402") /\ Ended(q, "200")
        /\ req[r].op = "paid" /\ Ended(r, "200") /\ req[r].user = req[p].user
        /\ effect[r] = orders[req[r].oid].size
        /\ Count(req[q].user, "reserve", req[q].key) = 1
        /\ Count(req[q].user, "capture", req[q].key) = 1
        /\ balance[req[q].user] = orders[req[r].oid].size - CREDIT_COST_PER_ASK

\* The simulate-paid requests of the owner on order o.
Payers(o) == {p \in Procs : req[p].op = "paid" /\ req[p].oid = o
                            /\ req[p].user = orders[o].user}

Creators(u, k) == {p \in Procs : req[p].op = "order" /\ req[p].user = u /\ req[p].key = k}

\* C13: for every user and order key, however many create_order calls ran
\* with them, the table holds at most one order of (user, key); once a call
\* has ended there is exactly one, exactly one call answered 201, and every
\* call that ended returned the id of that order.
C13_OneOrderPerKey ==
    \A u \in Users : \A k \in {<<"order", x>> : x \in OrderKeys} :
        /\ Cardinality(OrdersOf(u, k)) <= 1
        /\ Cardinality({p \in Creators(u, k) : resp[p].code = "201"}) = Cardinality(OrdersOf(u, k))
        /\ \A p \in Creators(u, k) :
             Done(p) => /\ resp[p].code \in {"200", "201"}
                        /\ OrdersOf(u, k) = {resp[p].oid}

\* C13 witness: three create_order calls with one (user, key): one answered
\* 201, one found the order and answered 200 with its id, and one that had
\* passed the lookup before the insert committed is about to meet the unique
\* constraint.
C13_Witness ==
    \E p, q, r \in Procs :
        /\ req[p].op = "order" /\ SameKey(p, q) /\ SameKey(p, r)
        /\ Ended(p, "201") /\ Ended(q, "200") /\ resp[q].oid = resp[p].oid
        /\ pc[r] = "order_insert" /\ ~OrderUniqueOk(req[r].user, req[r].key)
        /\ Cardinality(DOMAIN orders) = 1

\* C14: an order row changes only in the commit of a simulate-paid on it, and
\* only from pending to paid (paid_at set, every other column as it was): a
\* paid, failed or refunded order is never written; a simulate-paid that finds
\* the order neither pending nor paid ends with 409
\* ORDER_STATUS_INVALID_FOR_PAYMENT and changes no table.
C14_StatusTransitions ==
    [][/\ \A o \in DOMAIN orders :
            /\ o \in DOMAIN orders'
            /\ orders'[o] # orders[o]
                 => /\ orders[o].status = "pending"
                    /\ orders'[o] = [orders[o] EXCEPT !.status = "paid", !.paid_at = TRUE]
                    /\ \E p \in Procs : /\ pc[p] = "paid_commit" /\ pc'[p] = "done"
                                        /\ req[p].op = "paid" /\ req[p].oid = o
       /\ \A p \in Procs :
            (/\ pc[p] = "paid_commit" /\ pc'[p] = "done"
             /\ orders[req[p].oid].status \notin {"pending", "paid"})
            => (resp'[p].code = "409_status" /\ db' = db)]_vars

\* C14 witness: a simulate-paid on a failed order ended with 409 and left it
\* failed and unpaid, and a simulate-paid on another order ended with 200 and
\* left that order paid.
C14_Witness ==
    \E p, q \in Procs :
        /\ req[p].op = "paid" /\ Ended(p, "409_status")
        /\ orders[req[p].oid].status = "failed" /\ ~orders[req[p].oid].paid_at
        /\ effect[p] = 0
        /\ req[q].op = "paid" /\ Ended(q, "200") /\ req[q].oid # req[p].oid
        /\ orders[req[q].oid].status = "paid" /\ orders[req[q].oid].paid_at

\* The idempotency key ask_followup derives for follow-up f.
FollowupKey(f) == <<"followup", f>>

\* The follow-up-ask requests on follow-up f.
Consumers(f) == {p \in Procs : req[p].op = "followup" /\ req[p].fid = f}

\* Handler p serves a follow-up ask in this step, from the request to its
\* first commit.
FollowupAskArrives(p) == pc[p] = "idle" /\ pc'[p] # "idle" /\ req'[p].op = "followup"

\* C15: for every follow-up F, whatever follow-up asks ran on it, at most one
\* question and at most one capture exist under the key "followup:<F.id>" and
\* at most one of the requests created a question; a request of the owner that
\* finds F not pending ends at once with 409 FOLLOWUP_ALREADY_USED and changes
\* no table.
C15_ConsumedOnce ==
    /\ [](\A f \in DOMAIN followups :
            LET u == followups[f].user IN
              /\ Cardinality({q \in questions : q.user = u /\ q.key = FollowupKey(f)}) <= 1
              /\ Count(u, "capture", FollowupKey(f)) <= 1
              /\ Cardinality({p \in Consumers(f) :
                                \E q \in questions : q.id = NewQuestionId(p)}) <= 1)
    /\ [][\A p \in Procs :
            (/\ FollowupAskArrives(p)
             /\ req'[p].fid \in DOMAIN followups
             /\ followups[req'[p].fid].user = req'[p].user
             /\ followups[req'[p].fid].status # "pending")
            => (resp'[p].code = "409_used" /\ pc'[p] = "done" /\ db' = db)]_vars

\* C15 witness: two follow-up asks on one follow-up: one created the child
\* question and was charged, the other found the follow-up used.
C15_Witness ==
    \E f \in DOMAIN followups : \E p, q \in Consumers(f) :
        /\ Ended(p, "200") /\ resp[p].qid = NewQuestionId(p) /\ Ended(q, "409_used")
        /\ Count(followups[f].user, "capture", FollowupKey(f)) = 1
        /\ followups[f].status = "used"

\* C16 as stated: once a follow-up is used it never returns to pending.
C16_NeverPendingAgain ==
    [][\A f \in DOMAIN followups :
         followups[f].status = "used" => followups'[f].status = "used"]_vars

\* C16 amended: a follow-up that is linked to a child question is never
\* written again (it stays used); a follow-up goes from used back to pending
\* only while it is not linked, in the restore of a follow-up ask on it whose
\* pipeline failed with 402, 409 or 500; it goes from pending to used only in
\* the first commit of a follow-up ask on it.
C16_UsedOnceLinked ==
    [][\A f \in DOMAIN followups :
         /\ followups[f].used_qid # NoId => followups'[f] = followups[f]
         /\ (followups[f].status = "used" /\ followups'[f].status = "pending")
              => /\ followups[f].used_qid = NoId
                 /\ \E p \in Consumers(f) :
                      /\ pc[p] = "restore" /\ pc'[p] = "done"
                      /\ resp[p].code \in {"402", "409", "500"}
         /\ (followups[f].status = "pending" /\ followups'[f].status = "used")
              => \E p \in Procs : FollowupAskArrives(p) /\ req'[p].fid = f]_vars

\* C16 witness: a follow-up ask failed and the follow-up was restored; a
\* second follow-up ask has set it to used again and is running.
C16_Witness ==
    \E f \in DOMAIN followups : \E p, q \in Consumers(f) :
        /\ p < q /\ Done(p) /\ resp[p].code \in {"402", "500"}
        /\ pc[q] \notin {"idle", "done", "restore"}
        /\ followups[f].status = "used" /\ followups[f].used_qid = NoId

\* C17: a follow-up whose used_question_id is set has status used and used_at
\* set, and the id is that of a committed succeeded question of the
\* follow-up's owner that has its answer: the link is written after the
\* question is committed.
C17_LinkAfterChild ==
    \A f \in DOMAIN followups :
        followups[f].used_qid # NoId
        => /\ followups[f].status = "used" /\ followups[f].used_at
           /\ \E q \in questions :
                /\ q.id = followups[f].used_qid
                /\ q.status = "succeeded"
                /\ q.user = followups[f].user
                /\ \E a \in answers : a.qid = q.id

\* C17 witness: one follow-up of a question is linked to the child question a
\* follow-up ask created; its sibling is pending and has no link.
C17_Witness ==
    \E f, g \in DOMAIN followups : \E p \in Consumers(f) :
        /\ f # g /\ followups[f].qid = followups[g].qid
        /\ Done(p) /\ followups[f].used_qid = NewQuestionId(p)
        /\ \E q \in questions : q.id = NewQuestionId(p) /\ q.key = FollowupKey(f)
        /\ followups[g].status = "pending" /\ followups[g].used_qid = NoId

\* The follow-up ask of handler p has set its follow-up to used: it is past
\* the first commit of ask_followup.
MarkedUsed(p) == req[p].op = "followup" /\ pc[p] \notin {"idle"}
                 /\ resp[p].code \notin {"404", "403", "409_used"}

\* C18: a follow-up ask whose pipeline failed with 402, 409 or 500 after the
\* follow-up was set to used does not end before its restore: the step that
\* ends it leaves the follow-up pending with used_at and used_question_id
\* unset, and until then the follow-up is used and not linked.
C18_RestoredOnFailure ==
    /\ [](\A p \in Procs :
            (MarkedUsed(p) /\ resp[p].code \in {"402", "409", "500"})
            => \/ pc[p] = "restore" /\ followups[req[p].fid].status = "used"
                                    /\ followups[req[p].fid].used_qid = NoId
               \/ pc[p] = "done")
    /\ [][\A p \in Procs :
            (/\ MarkedUsed(p) /\ resp'[p].code \in {"402", "409", "500"}
             /\ pc[p] # "done" /\ pc'[p] = "done")
            => /\ pc[p] = "restore"
               /\ followups'[req[p].fid].status = "pending"
               /\ ~followups'[req[p].fid].used_at
               /\ followups'[req[p].fid].used_qid = NoId]_vars

\* C18 witness: a follow-up ask ended with 500 after its reserve was refunded
\* and its follow-up is pending again, unlinked, with used_at unset.
C18_Witness ==
    \E p \in Procs :
        /\ req[p].op = "followup" /\ Ended(p, "500")
        /\ Count(req[p].user, "refund", req[p].key) = 1
        /\ followups[req[p].fid].status = "pending"
        /\ ~followups[req[p].fid].used_at
        /\ followups[req[p].fid].used_qid = NoId

\* C19 as stated: a follow-up ask that arrives after a follow-up ask on the
\* same follow-up failed in generation (reserve refunded, follow-up restored)
\* and that finds the follow-up pending runs the pipeline afresh: it ends with
\* the child question, with a new failure, or short of credit, not with a
\* conflict.
C19_FollowupRetryResolved ==
    \A p \in Procs :
        (/\ MarkedUsed(p) /\ Done(p) /\ req[p].retry
         /\ \E q \in Consumers(req[p].fid) : q < p /\ Ended(q, "500"))
        => resp[p].code \in {"200", "500", "402"}

\* C20 as stated: a follow-up ask that ended with 200 leaves its follow-up
\* used, with used_at set and linked to the question this request created
\* from the follow-up's content, has lowered the owner's balance by exactly 1,
\* and the key "followup:<F.id>" has exactly one reserve and one capture.
C20_FollowupSuccess ==
    \A p \in Procs :
        (req[p].op = "followup" /\ Ended(p, "200"))
        => LET f == req[p].fid IN
             /\ followups[f].status = "used" /\ followups[f].used_at
             /\ followups[f].used_qid = resp[p].qid
             /\ resp[p].qid = NewQuestionId(p)
             /\ \E q \in questions : /\ q.id = resp[p].qid /\ q.key = FollowupKey(f)
                                     /\ q.text = followups[f].content
             /\ effect[p] = -CREDIT_COST_PER_ASK
             /\ Count(req[p].user, "reserve", FollowupKey(f)) = 1
             /\ Count(req[p].user, "capture", FollowupKey(f)) = 1

\* The follow-up ask arriving in this step is one that ask_followup rejects
\* before its first commit, and the code it is rejected with.
RejectCode(u, f) ==
    IF f \notin DOMAIN followups THEN "404"
    ELSE IF followups[f].user # u THEN "403"
    ELSE IF followups[f].status # "pending" THEN "409_used"
    ELSE "none"

\* C21: a follow-up ask on a follow-up that does not exist (404), that another
\* user owns (403) or that is not pending (409) ends in its first statement with
\* that code and changes nothing: every follow-up, every wallet and balance,
\* the ledger and every other table are as before the call, and no lock is
\* left held; a request that ended with one of these codes has made no change
\* to its caller's balance and owns no ledger row and no question.
C21_RejectedChangesNothing ==
    /\ [][\A p \in Procs :
            (FollowupAskArrives(p) /\ RejectCode(req'[p].user, req'[p].fid) # "none")
            => /\ resp'[p].code = RejectCode(req'[p].user, req'[p].fid)
               /\ pc'[p] = "done"
               /\ db' = db
               /\ walletLock' = walletLock]_vars
    /\ [](\A p \in Procs :
            (req[p].op = "followup" /\ resp[p].code \in {"404", "403", "409_used"})
            => /\ Done(p)
               /\ effect[p] = 0
               /\ \A i \in DOMAIN ledger : ledger[i].rid # RequestId(p)
               /\ \A q \in questions : q.id # NewQuestionId(p))

\* C21 witness: after an ask of one user created follow-ups and was charged,
\* a follow-up ask of the other user on one of them ended with 403 and a
\* follow-up ask on an unknown id ended with 404; the follow-up is pending and
\* unlinked and the ledger holds the two rows of the ask.
C21_Witness ==
    \E p, q \in Procs :
        /\ req[p].op = "followup" /\ Ended(p, "403")
        /\ req[q].op = "followup" /\ Ended(q, "404")
        /\ followups[req[p].fid].status = "pending"
        /\ followups[req[p].fid].used_qid = NoId
        /\ Len(ledger) = 2

\* C26: the ledger is append-only: every step of every handler (ask,
\* follow-up ask, refund, simulate-paid, create_order) leaves each existing
\* credit transaction where and as it was, and at most adds one row at the end.
C26_LedgerAppendOnly ==
    [][/\ Len(ledger') \in {Len(ledger), Len(ledger) + 1}
       /\ \A i \in DOMAIN ledger : ledger'[i] = ledger[i]]_vars

\* C26 witness: the ledger holds a purchase, a reserve with its capture and a
\* reserve with its refund, in the order in which they were committed.
C26_Witness ==
    /\ Len(ledger) = 5
    /\ ledger[1].action = "purchase"
    /\ \E i, j, k, l \in 2..5 :
         /\ i < j /\ k < l
         /\ ledger[i].action = "reserve" /\ ledger[j].action = "capture"
         /\ ledger[i].key = ledger[j].key
         /\ ledger[k].action = "reserve" /\ ledger[l].action = "refund"
         /\ ledger[k].key = ledger[l].key

\* The sum of the amounts of the ledger rows of user u that go with a change
\* of the balance: reserve, refund and purchase (a capture changes no balance).
LedgerNet(u) ==
    LET sum[i \in 0..Len(ledger)] ==
          IF i = 0 THEN 0
          ELSE sum[i - 1] + (IF ledger[i].user = u /\ ledger[i].action # "capture"
                               THEN ledger[i].amount ELSE 0)
    IN sum[Len(ledger)]

\* The balance user u had before any of the ledger rows.
OpeningBalance(u) == balance[u] - LedgerNet(u)

\* The handlers that committed a reserve row of user u.
Reservers(u) == {p \in Procs : req[p].user = u /\ ReservedBy(p)}

\* C27: every change of a balance is made by a handler that held the user's
\* wallet row lock before the step (taken in an earlier statement, before the
\* balance is read) and commits in it, and it changes the balance by exactly
\* the amount of the ledger row it adds: no update is lost.  So of two asks of
\* one user with different keys that run on a balance of 1 with no refund and
\* no purchase, at most one reserves; when no third request took the unit,
\* exactly one reserves and the other ends with 402.
C27_ReservesSerialised ==
    /\ [][\A u \in Users :
            /\ balance'[u] # balance[u]
                 => \E p \in Procs :
                      /\ walletLock[u] = p /\ walletLock'[u] = NoProc
                      /\ req[p].user = u
                      /\ pc[p] \in {"reserve", "refund_commit", "paid_commit"}
                      /\ pc'[p] # pc[p]
            /\ OpeningBalance(u)' = OpeningBalance(u)]_vars
    /\ [](\A p, q \in Procs :
            (/\ p # q /\ IsAsk(p) /\ IsAsk(q)
             /\ req[p].user = req[q].user /\ req[p].key # req[q].key
             /\ OpeningBalance(req[p].user) = CREDIT_COST_PER_ASK
             /\ \A i \in DOMAIN ledger :
                  ledger[i].user = req[p].user => ledger[i].action \in {"reserve", "capture"})
            => /\ ~(ReservedBy(p) /\ ReservedBy(q))
               /\ (Done(p) /\ Done(q) /\ Reservers(req[p].user) \subseteq {p, q})
                    => \/ ReservedBy(p) /\ resp[q].code = "402"
                       \/ ReservedBy(q) /\ resp[p].code = "402")

\* C27 witness: on a balance of 1 two asks of one user with different keys
\* overlapped: the one that arrived first was still short of its balance check
\* when the other committed its reserve, and it ended with 402.
C27_Witness ==
    \E p, q \in Procs :
        /\ q < p /\ IsAsk(p) /\ IsAsk(q)
        /\ req[p].user = req[q].user /\ req[p].key # req[q].key
        /\ OpeningBalance(req[p].user) = CREDIT_COST_PER_ASK
        /\ ReservedBy(p) /\ Ended(p, "200")
        /\ ~ReservedBy(q) /\ Ended(q, "402")
        /\ balance[req[p].user] = 0

\* Handler p has read that its caller has no wallet row and goes on to insert
\* one (check-then-insert).
InsertsWallet(p) == pc[p] = "mkwallet"

\* C29 as stated: no two first-time operations of a user both fail to find
\* the wallet and both try to insert it, and so none of them ends in the
\* IntegrityError of a second insert.
C29_WalletInsertedOnce ==
    /\ \A p, q \in Procs :
         (p # q /\ req[p].user = req[q].user) => ~(InsertsWallet(p) /\ InsertsWallet(q))
    /\ \A p \in Procs : resp[p].code # "crash"

\* The harm of C29's race taken alone: an ask does not end in the
\* IntegrityError of its wallet insert.
NoWalletInsertError == \A p \in Procs : ~(IsAsk(p) /\ Ended(p, "crash"))

\* The calls of the refund for (u, k).
Refunders(u, k) == {p \in Procs : pc[p] # "idle" /\ req[p].user = u /\ req[p].key = k}

\* The sum of effect over a set of handlers.
RECURSIVE EffectSum(_)
EffectSum(S) == IF S = {} THEN 0
                ELSE LET p == CHOOSE x \in S : TRUE IN effect[p] + EffectSum(S \ {p})

\* C28: however many calls of the refund run for one (U,K), one after another
\* or overlapping, the ledger holds at most one refund row of (U,K), exactly
\* one once a call has ended; the calls together raised the balance by the
\* cost exactly when that row is there, and balances only change with a row;
\* a call that finds the row ends in its first statement and changes nothing.
C28_RefundIdempotent ==
    /\ [](\A u \in Users : \A k \in LedgerKeys(u) :
            /\ Count(u, "refund", k) <= 1
            /\ EffectSum(Refunders(u, k)) = CREDIT_COST_PER_ASK * Count(u, "refund", k)
            /\ \A p \in Refunders(u, k) :
                 /\ effect[p] \in {0, CREDIT_COST_PER_ASK}
                 /\ Done(p) => Count(u, "refund", k) = 1)
    /\ [][/\ \A u \in Users : OpeningBalance(u)' = OpeningBalance(u)
          /\ \A p \in Procs :
               (/\ pc[p] = "idle" /\ pc'[p] # "idle"
                /\ Count(req'[p].user, "refund", req'[p].key) = 1)
               => (pc'[p] = "done" /\ db' = db)]_vars

\* C28 witness: three calls of the refund for one (U,K): one committed the
\* refund, one that overlapped with it met the row at its own commit, and one
\* that came later found the row at once; one refund row, the balance one
\* above the opening balance less the reserves.
C28_Witness ==
    \E p, q, r \in Procs :
        /\ p # q /\ q < r /\ p < r
        /\ SameKey(p, q) /\ SameKey(p, r)
        /\ Ended(p, "500") /\ effect[p] = CREDIT_COST_PER_ASK
        /\ Ended(q, "crash") /\ effect[q] = 0
        /\ Ended(r, "500") /\ effect[r] = 0
        /\ Count(req[p].user, "refund", req[p].key) = 1
        /\ Len(ledger) = 4

\* The succeeded questions of user u that are the used_question_id of none of
\* u's follow-ups.
ThreadRoots(u) ==
    {q.id : q \in {x \in questions :
                     /\ x.user = u /\ x.status = "succeeded"
                     /\ ~\E f \in DOMAIN followups :
                          followups[f].user = u /\ followups[f].used_qid = x.id}}

\* The question ids of the items of the history list served.
ItemIds == {hist.items[i].qid : i \in DOMAIN hist.items}

\* C22: the history list of a user counts (total) exactly the user's succeeded
\* questions that are the used_question_id of none of the user's follow-ups,
\* and its items are a page of them without repeats, all of them when the page
\* is large enough: no child of a follow-up, no question of another user and
\* no question that is not succeeded is listed or counted.
C22_HistoryListRoots ==
    hist.op = "list"
    => LET roots == ThreadRoots(hist.user)
           rest == IF hist.total > hist.offset THEN hist.total - hist.offset ELSE 0
       IN /\ hist.code = "200"
          /\ hist.total = Cardinality(roots)
          /\ ItemIds \subseteq roots
          /\ Cardinality(ItemIds) = Len(hist.items)
          /\ Len(hist.items) = (IF hist.limit < rest THEN hist.limit ELSE rest)
          /\ (hist.offset = 0 /\ hist.limit >= hist.total) => ItemIds = roots

\* C22 witness: a list with one item, served from tables in which the caller
\* also has a succeeded question that is the child of one of their follow-ups
\* and a question that is not succeeded or belongs to the other user.
C22_Witness ==
    /\ hist.op = "list" /\ hist.total = 1 /\ Len(hist.items) = 1
    /\ \E q \in questions :
         /\ q.user = hist.user /\ q.status = "succeeded"
         /\ \E f \in DOMAIN followups :
              /\ followups[f].user = hist.user /\ followups[f].used_qid = q.id
              /\ followups[f].qid = hist.items[1].qid
    /\ \E q \in questions : q.user # hist.user \/ q.status # "succeeded"

\* The question ids of the nodes of a tree.
RECURSIVE NodeIds(_)
NodeIds(node) ==
    {node.qid} \cup UNION {NodeIds(node.children[i]) : i \in DOMAIN node.children}

\* No question is the used_question_id of two follow-ups of user u: what
\* ask_followup writes, one link per follow-up key.
SingleParent(u) ==
    \A q \in questions : Cardinality(ParentFollowups(Data, u, q.id)) <= 1

\* The questions the follow-up links of user u lead to from the questions of
\* S in at most n steps (parent question -> used_question_id).
RECURSIVE LinkedFrom(_, _, _)
LinkedFrom(u, S, n) ==
    LET step == {followups[f].used_qid :
                   f \in {g \in DOMAIN followups : /\ followups[g].user = u
                                                   /\ followups[g].qid \in S
                                                   /\ followups[g].used_qid # NoId}}
    IN IF n = 0 THEN {} ELSE step \cup LinkedFrom(u, step, n - 1)

\* The links of user u form no cycle.
Acyclic(u) == \A q \in questions : q.id \notin LinkedFrom(u, {q.id}, Cardinality(questions))

\* The threads of user u are trees: what the handlers write.
ThreadsAreTrees(u) == SingleParent(u) /\ Acyclic(u)

\* C23: when history detail returns a thread, the request with the id of any
\* question of that thread (the root or any descendant) returns the same
\* response: the same root, the same tree and the same transactions.  Stated
\* for tables in which the caller's threads are trees (no question is the
\* child of two follow-ups, no cycle of links), as in every state the handlers
\* reach; otherwise a question may belong to two threads.
C23_SameRootFromDescendant ==
    (hist.op = "detail" /\ hist.code = "200" /\ ThreadsAreTrees(hist.user))
    => \A n \in NodeIds(hist.root) :
         LET d == AskHistoryDetail(Data, hist.user, n) IN
           /\ d.code = "200"
           /\ d.root = hist.root
           /\ d.transactions = hist.transactions

\* C23 witness: the request was made with the id of a grandchild: the tree
\* returned is root, child, grandchild, and the id requested is the
\* grandchild's.
C23_Witness ==
    /\ hist.op = "detail" /\ hist.code = "200" /\ ThreadsAreTrees(hist.user)
    /\ Len(hist.root.children) = 1
    /\ Len(hist.root.children[1].children) = 1
    /\ hist.root.children[1].children[1].qid = hist.qid
    /\ Cardinality(NodeIds(hist.root)) = 3

\* C24 as stated: history detail ends with a finite tree (or with 404) on every
\* follow-up relation, cycles of used_question_id links included: the
\* construction of the nested nodes never runs into the recursion limit.
C24_DetailTerminates ==
    hist.op = "detail" => hist.code \in {"200", "404"}

\* The tables with the rows of every user other than u left out.
OwnData(u) ==
    [questions |-> {q \in questions : q.user = u},
     answers |-> {a \in answers : \E q \in questions : q.id = a.qid /\ q.user = u},
     followups |-> [f \in {g \in DOMAIN followups : followups[g].user = u} |-> followups[f]],
     ledger |-> SelectSeq(ledger, LAMBDA t : t.user = u)]

\* The caller of the history request served owns a succeeded question with
\* the id requested.
RequestedIsOwnSucceeded ==
    \E q \in questions : q.id = hist.qid /\ q.user = hist.user /\ q.status = "succeeded"

\* C25: history detail for an id that is not a succeeded question of the
\* caller (a question of another user, a question that is not succeeded, or no
\* question) ends with 404 QUESTION_NOT_FOUND and the response is, but for the
\* id, the one for an id no row has; and every response of history detail is
\* the one the same request gets from tables without the other users' rows.
C25_NotFoundAlike ==
    hist.op = "detail"
    => /\ ~RequestedIsOwnSucceeded
            => /\ hist.code = "404"
               /\ [hist EXCEPT !.qid = MissingQid]
                    = AskHistoryDetail(Data, hist.user, MissingQid)
       /\ hist = AskHistoryDetail(OwnData(hist.user), hist.user, hist.qid)

\* C25 witness: 404 for the id of a succeeded question of the other user that
\* has a follow-up resolved into a child, while the caller has a succeeded
\* question of their own.
C25_Witness ==
    /\ hist.op = "detail" /\ hist.code = "404"
    /\ \E q \in questions :
         /\ q.id = hist.qid /\ q.user # hist.user /\ q.status = "succeeded"
         /\ \E f \in DOMAIN followups :
              /\ followups[f].qid = q.id /\ followups[f].user = q.user
              /\ followups[f].used_qid \notin {NoId, q.id}
    /\ \E q \in questions : q.user = hist.user /\ q.status = "succeeded"

\* The succeeded questions of user u.
OwnSucceeded(u) ==
    {q.id : q \in {x \in questions : x.user = u /\ x.status = "succeeded"}}

\* The succeeded questions of user u that a follow-up of user u on question q
\* was resolved into.
LinkedChildren(u, q) ==
    {c \in OwnSucceeded(u) :
        \E f \in DOMAIN followups :
            /\ followups[f].user = u /\ followups[f].qid = q
            /\ followups[f].used_qid = c}

\* The succeeded questions of user u reachable from those of S through such
\* links.
RECURSIVE ReachableFrom(_, _)
ReachableFrom(u, S) ==
    LET next == S \cup UNION {LinkedChildren(u, q) : q \in S}
    IN IF next = S THEN S ELSE ReachableFrom(u, next)

\* Every node of the tree has as children, once each, the linked children of
\* its question.
RECURSIVE ChildrenAreLinked(_, _)
ChildrenAreLinked(u, node) ==
    /\ {node.children[i].qid : i \in DOMAIN node.children} = LinkedChildren(u, node.qid)
    /\ Len(node.children) = Cardinality(LinkedChildren(u, node.qid))
    /\ \A i \in DOMAIN node.children : ChildrenAreLinked(u, node.children[i])

\* C30: the questions of the tree history detail returns are exactly the
\* caller's succeeded questions reachable from the root through the caller's
\* follow-up links (parent question -> used_question_id), and every one of
\* them is in the tree as a child of the parent question of its follow-up.
C30_TreeIsReachableThread ==
    (hist.op = "detail" /\ hist.code = "200")
    => /\ NodeIds(hist.root) = ReachableFrom(hist.user, {hist.root.qid})
       /\ ChildrenAreLinked(hist.user, hist.root)

\* C30 witness: a tree returned whose root has two children, from tables in
\* which both follow-ups of the root are resolved.
C30_Witness ==
    /\ hist.op = "detail" /\ hist.code = "200"
    /\ Len(hist.root.children) = 2
    /\ Cardinality(NodeIds(hist.root)) = 3

\* The rows of the ledger that are captures of user u referring to question q.
CaptureRows(u, q) ==
    {i \in DOMAIN ledger : /\ ledger[i].user = u /\ ledger[i].action = "capture"
                           /\ ledger[i].qid = q}

\* The sum of the amounts of a set of ledger rows.
RECURSIVE AmountSum(_)
AmountSum(S) ==
    IF S = {} THEN 0
    ELSE LET i == CHOOSE x \in S : TRUE IN ledger[i].amount + AmountSum(S \ {i})

Abs(n) == IF n < 0 THEN -n ELSE n

\* The nodes of a tree.
RECURSIVE TreeNodes(_)
TreeNodes(node) ==
    {node} \cup UNION {TreeNodes(node.children[i]) : i \in DOMAIN node.children}

\* C31: every item of a history list and every node of a history detail tree
\* carries as charged_credits the absolute value of the sum of the amounts of
\* the caller's capture rows that refer to its question (0 without such a
\* row); rows of other actions and of other users do not count.
C31_ChargedIsCaptureSum ==
    /\ hist.op = "list"
         => \A i \in DOMAIN hist.items :
              hist.items[i].charged
                = Abs(AmountSum(CaptureRows(hist.user, hist.items[i].qid)))
    /\ (hist.op = "detail" /\ hist.code = "200")
         => \A n \in TreeNodes(hist.root) :
              n.charged = Abs(AmountSum(CaptureRows(hist.user, n.qid)))

\* C31 witness: a tree returned with a node charged 1 whose question has, in
\* the caller's ledger, a capture, a refund and a reserve row.
C31_Witness ==
    /\ hist.op = "detail" /\ hist.code = "200"
    /\ \E n \in TreeNodes(hist.root) :
         /\ n.charged = 1
         /\ \A a \in {"capture", "refund", "reserve"} :
              \E i \in DOMAIN ledger :
                 /\ ledger[i].user = hist.user /\ ledger[i].action = a
                 /\ ledger[i].qid = n.qid

\* C32 as stated: the follow-up options of every ask response, fresh or
\* replayed, are follow-ups of the question of the response that are pending
\* when the response is built, in creation order and at most three: a replay
\* offers no follow-up that has been used.
C32_OptionsStillPending ==
    [][\A p \in Procs :
          (resp'[p] # resp[p] /\ resp'[p].code = "200"
             /\ req'[p].op \in {"ask", "followup"})
          => LET options == resp'[p].options IN
               /\ Len(options) <= FOLLOWUP_OPTIONS_COUNT
               /\ \A i \in DOMAIN options :
                    /\ options[i] \in DOMAIN followups'
                    /\ followups'[options[i]].qid = resp'[p].qid
                    /\ followups'[options[i]].status = "pending"
               /\ \A i, j \in DOMAIN options :
                    i < j => FollowupBefore(options[i], options[j])]_vars

\* The handlers that served an ask without a key.
Keyless(p) == req[p].op = "ask" /\ req[p].key[1] = "uuid4"

\* C33: an ask without a key is never matched by a replay or by the unique
\* constraints of another request's key: it goes from the replay check to the
\* wallet lock, never meets a duplicate, and when it succeeds the question it
\* returns is one it created itself, with its own capture row and a charge of
\* one credit; so n such successes are n distinct questions and n credits.
C33_NoKeyNeverReplayed ==
    \A p \in Procs :
       Keyless(p)
       => /\ pc[p] \notin {"idle", "conflict"}
          /\ resp[p].code # "409"
          /\ resp[p].code = "200"
               => /\ \E q \in questions :
                       /\ q.id = resp[p].qid /\ q.rid = RequestId(p)
                       /\ q.user = req[p].user /\ q.key = req[p].key
                  /\ \E i \in DOMAIN ledger :
                       /\ ledger[i].action = "capture" /\ ledger[i].qid = resp[p].qid
                       /\ ledger[i].rid = RequestId(p) /\ ledger[i].user = req[p].user
                  /\ effect[p] = -CREDIT_COST_PER_ASK
                  /\ \A o \in Procs \ {p} :
                       (Keyless(o) /\ resp[o].code = "200") => resp[o].qid # resp[p].qid

\* C33 witness: two asks of u1 without a key have both succeeded, and the
\* ledger holds two capture rows.
C33_Witness ==
    \E p, o \in Procs :
       /\ p # o /\ Keyless(p) /\ Keyless(o)
       /\ req[p].user = "u1" /\ req[o].user = "u1"
       /\ resp[p].code = "200" /\ resp[o].code = "200"
       /\ Cardinality({i \in DOMAIN ledger : ledger[i].action = "capture"}) = 2

\* The question was created by a follow-up ask.
CreatedByFollowupAsk(qid) ==
    \E p \in Procs : req[p].op = "followup" /\ NewQuestionId(p) = qid

\* C34 as stated: no history list, served at any moment between the steps of
\* the running requests, has among its items a question that a follow-up ask
\* created.
C34_ChildNeverListed ==
    hist.op = "list"
    => \A i \in DOMAIN hist.items : ~CreatedByFollowupAsk(hist.items[i].qid)

\* The follow-ups of a question.
FollowupsOf(qid) == {f \in DOMAIN followups : followups[f].qid = qid}

\* The succeeded question q has its answer, its follow-ups and its capture.
BundleComplete(q) ==
    /\ Cardinality({a \in answers : a.qid = q.id}) = 1
    /\ Cardinality(FollowupsOf(q.id)) <= FOLLOWUP_OPTIONS_COUNT
    /\ \A f, g \in FollowupsOf(q.id) :
         f # g => followups[f].content # followups[g].content
    /\ \A f \in FollowupsOf(q.id) : followups[f].user = q.user
    /\ Cardinality({i \in DOMAIN ledger :
                      /\ ledger[i].action = "capture" /\ ledger[i].qid = q.id}) = 1
    /\ \E i \in DOMAIN ledger :
         /\ ledger[i].action = "capture" /\ ledger[i].qid = q.id
         /\ ledger[i].user = q.user /\ ledger[i].key = q.key /\ ledger[i].rid = q.rid
         /\ ledger[i].amount = -CREDIT_COST_PER_ASK

\* C35: every succeeded question is committed together with exactly one
\* answer, at most three follow-ups of pairwise distinct content and one
\* capture row of the same user, key, request id and question id; no step
\* adds an answer, a follow-up or a capture to a question committed before.
C35_SuccessBundleAtomic ==
    /\ [](\A q \in questions : q.status = "succeeded" => BundleComplete(q))
    /\ [][/\ \A a \in answers' \ answers :
               \E q \in questions' \ questions : q.id = a.qid
          /\ \A f \in DOMAIN followups' \ DOMAIN followups :
               \E q \in questions' \ questions : q.id = followups'[f].qid
          /\ \A i \in DOMAIN ledger' \ DOMAIN ledger :
               ledger'[i].action = "capture"
               => \E q \in questions' \ questions : q.id = ledger'[i].qid]_vars

\* C35 witness: a question of an ask and the child question of a follow-up ask
\* on it are committed and complete, and the follow-up is linked to the child.
C35_Witness ==
    \E q, c \in questions :
       /\ q.key[1] = "client" /\ c.key[1] = "followup"
       /\ c.key[2] \in FollowupsOf(q.id)
       /\ followups[c.key[2]].used_qid = c.id
       /\ Cardinality(FollowupsOf(q.id)) = FOLLOWUP_OPTIONS_COUNT
       /\ BundleComplete(q) /\ BundleComplete(c)

\* The rows of user b, table by table, and the balance of b's wallet, in the
\* tables T = <<walletRow, balance, ledger, questions, followups, orders>>.
RowsOf(b, T) ==
    [wallet |-> <<T[1][b], T[2][b]>>,
     ledger |-> SelectSeq(T[3], LAMBDA t : t.user = b),
     questions |-> {q \in T[4] : q.user = b},
     followups |-> [f \in {g \in DOMAIN T[5] : T[5][g].user = b} |-> T[5][f]],
     orders |-> [o \in {n \in DOMAIN T[6] : T[6][n].user = b} |-> T[6][o]]]

\* C36: a step of a request of user A (ask, follow-up ask, create_order,
\* simulate-paid, on A's own rows or on a follow-up or an order of another
\* user) leaves the wallet, the ledger rows, the questions, the follow-ups and
\* the orders of every other user as they were.
C36_OtherUsersUntouched ==
    [][\A p \in Procs :
          pc'[p] # pc[p]
          => \A b \in Users \ {req'[p].user} :
               RowsOf(b, <<walletRow', balance', ledger', questions', followups', orders'>>)
                 = RowsOf(b, <<walletRow, balance, ledger, questions, followups, orders>>)]_vars

\* C36 witness: a follow-up ask on a follow-up of another user has ended with
\* 403, the owner having a question, its follow-ups and ledger rows.
C36_Witness ==
    \E p \in Procs :
       /\ req[p].op = "followup" /\ resp[p].code = "403"
       /\ followups[req[p].fid].user # req[p].user
       /\ \E q \in questions : q.user # req[p].user
       /\ \E i \in DOMAIN ledger : ledger[i].user # req[p].user

\* A simulate-paid on an order of another user has ended with 404 and the
\* order is still pending.
C36_ForeignOrderRefused ==
    \E p \in Procs :
       /\ req[p].op = "paid" /\ resp[p].code = "404"
       /\ req[p].oid \in DOMAIN orders
       /\ orders[req[p].oid].user # req[p].user
       /\ orders[req[p].oid].status = "pending"

\* The sum of the amounts of the reserve, refund and purchase rows of user u.
WalletRowsNet(u) ==
    AmountSum({i \in DOMAIN ledger :
                 /\ ledger[i].user = u
                 /\ ledger[i].action \in {"reserve", "refund", "purchase"}})

\* C37: the balance of every user minus the sum of the amounts of the user's
\* reserve, refund and purchase rows never changes, so the balance is always
\* the initial balance (that of the state with an empty ledger) plus that
\* sum; a step that adds a capture row, which carries amount -1, leaves the
\* balance of its user as it was.
C37_BalanceIsLedgerSum ==
    [][\A u \in Users :
          /\ balance'[u] - WalletRowsNet(u)' = balance[u] - WalletRowsNet(u)
          /\ \A i \in DOMAIN ledger' \ DOMAIN ledger :
               (ledger'[i].user = u /\ ledger'[i].action = "capture")
               => /\ ledger'[i].amount = -CREDIT_COST_PER_ASK
                  /\ balance'[u] = balance[u]]_vars

\* C37 witness: the ledger of u1 holds a purchase, a refund, a capture and two
\* reserve rows.
C37_Witness ==
    /\ \A a \in {"purchase", "refund", "capture"} :
         \E i \in DOMAIN ledger : ledger[i].user = "u1" /\ ledger[i].action = a
    /\ Cardinality({i \in DOMAIN ledger :
                      ledger[i].user = "u1" /\ ledger[i].action = "reserve"}) = 2

\* Row i of the ledger comes after a reserve row of its user and key.
ReserveBefore(i) ==
    \E j \in 1..(i - 1) :
       /\ ledger[j].action = "reserve"
       /\ ledger[j].user = ledger[i].user /\ ledger[j].key = ledger[i].key

\* C38: every capture and every refund row of (U,K) comes after a reserve row
\* of (U,K) in the ledger; and a handler that is at the generation step has
\* its reserve committed and holds no wallet row lock.
C38_ReserveFirst ==
    /\ \A i \in DOMAIN ledger :
         ledger[i].action \in {"capture", "refund"} => ReserveBefore(i)
    /\ \A p \in Procs :
         pc[p] = "generate"
         => /\ \E j \in DOMAIN ledger :
                 /\ ledger[j].action = "reserve" /\ ledger[j].user = req[p].user
                 /\ ledger[j].key = req[p].key /\ ledger[j].rid = RequestId(p)
            /\ \A u \in Users : walletLock[u] # p

\* C38 witness: a handler is at the generation step while another handler of
\* the same user holds the wallet row lock, and the ledger holds a capture.
C38_Witness ==
    /\ \E p, o \in Procs :
         /\ p # o /\ pc[p] = "generate"
         /\ req[o].user = req[p].user /\ walletLock[req[p].user] = o
    /\ \E i \in DOMAIN ledger : ledger[i].action = "capture"

\* The follow-ups resolved into question q, of any user.
LinksTo(q) == {f \in DOMAIN followups : followups[f].used_qid = q}

\* The questions that the follow-ups of the questions of S are resolved into.
ChildrenOf(S) ==
    {followups[f].used_qid :
        f \in {g \in DOMAIN followups : followups[g].qid \in S /\ followups[g].used_qid # NoId}}

\* The questions reached from those of S in one or more steps parent -> child.
RECURSIVE DescendantsWithin(_, _)
DescendantsWithin(S, n) ==
    IF n = 0 THEN {}
    ELSE ChildrenOf(S) \cup DescendantsWithin(ChildrenOf(S), n - 1)

Descendants(q) == DescendantsWithin({q}, Cardinality(questions) + 1)

\* The questions that are the child of no follow-up.
Roots == {q.id : q \in {x \in questions : LinksTo(x.id) = {}}}

\* C39: every question is the used_question_id of at most one follow-up, no
\* question is its own descendant under the relation parent question ->
\* used_question_id, and every question is a root or the descendant of exactly
\* one root: every thread is a tree.
C39_ThreadsAreTrees ==
    \A q \in questions :
       /\ Cardinality(LinksTo(q.id)) <= 1
       /\ q.id \notin Descendants(q.id)
       /\ Cardinality({r \in Roots : q.id = r \/ q.id \in Descendants(r)}) = 1

\* C39 witness: a thread of three questions, root, child and grandchild, each
\* linked by a follow-up of the one before.
C39_Witness ==
    \E r, c, g \in questions :
       /\ r.id \in Roots
       /\ \E f \in LinksTo(c.id) : followups[f].qid = r.id
       /\ \E f \in LinksTo(g.id) : followups[f].qid = c.id

\* Handler p holds a wallet row lock, an order row lock, a follow-up row lock.
HoldsWalletLock(p) == \E u \in Users : walletLock[u] = p
HoldsOrderLock(p) == \E o \in DOMAIN orderLock : orderLock[o] = p
HoldsFollowupLock(p) == \E x \in followupLock : x[2] = p

\* Handler p has begun, has not ended, and none of its steps can be taken: it
\* waits for a row lock.
Waiting(p) == pc[p] \notin {"idle", "done"} /\ ~ENABLED LockRun(p)

\* The handlers that hold the row lock handler p's next statement asks for.
Blockers(p) ==
    {o \in Procs \ {p} :
        \/ /\ pc[p] \in {"lock", "mkwallet", "refund_lock", "paid_wallet"}
           /\ walletLock[req[p].user] = o
        \/ /\ pc[p] \in {"restore", "link"}
           /\ <<req[p].fid, o>> \in followupLock}

\* C40: the row locks are never awaited in a cycle.  A handler that waits,
\* waits for a lock whose holder does not wait; a handler that holds a wallet
\* lock or a follow-up lock is at a statement that asks for no lock, and so
\* holds no wallet lock when it asks for a follow-up lock or an order lock; a
\* handler that holds an order lock asks at most for its caller's wallet
\* lock.  And every handler that has begun ends, given that every statement
\* that can run does run (the generation call returns).
C40_NoLockCycle ==
    /\ [](\A p \in Procs :
            /\ Waiting(p) => (Blockers(p) # {} /\ \A o \in Blockers(p) : ~Waiting(o))
            /\ HoldsWalletLock(p) => pc[p] \in {"reserve", "refund_commit", "paid_commit"}
            /\ HoldsFollowupLock(p)
                 => pc[p] \in {"followup_locked", "restore_locked", "link_locked"}
            /\ HoldsOrderLock(p) => pc[p] \in {"paid_wallet", "paid_commit"}
            /\ pc[p] \in {"idle", "restore", "link", "done"}
                 => ~HoldsWalletLock(p) /\ ~HoldsOrderLock(p) /\ ~HoldsFollowupLock(p))
    /\ \A p \in Procs : (pc[p] # "idle") ~> (pc[p] = "done")

\* C40 witness: a follow-up ask that is about to link its follow-up waits for
\* the row lock, which a second request for the same follow-up holds.
C40_Witness ==
    \E p, o \in Procs :
       /\ p # o /\ pc[p] = "link" /\ Waiting(p)
       /\ <<req[p].fid, o>> \in followupLock
       /\ pc[o] = "followup_locked"

\* A simulate-paid that holds its order's row lock waits for the wallet row
\* lock, which an ask of the same user holds.
C40_OrderThenWallet ==
    \E p, o \in Procs :
       /\ p # o /\ pc[p] = "paid_wallet" /\ Waiting(p) /\ HoldsOrderLock(p)
       /\ walletLock[req[p].user] = o /\ req[o].op = "ask"

====
